---------------------------- MODULE Spec2Model ----------------------------
(***************************************************************************)
(* Model of blahajpi's text classification engine.                         *)
(*                                                                         *)
(* Part 1: preprocessing::TfidfVectorizer                                  *)
(*         (src/lib/src/preprocessing/vectorizer.cpp).                     *)
(*                                                                         *)
(* Conventions                                                             *)
(*  - A text is a sequence of one-character strings; " " is whitespace.    *)
(*  - A token is a sequence of characters too ("_" joins the words of an   *)
(*    n-gram).                                                             *)
(*  - A double that holds a document-frequency threshold is kept in        *)
(*    tenths (maxDf = 5 stands for 0.5, 10 for 1.0, 20 for 2.0).           *)
(*  - A TF-IDF weight is kept in thousandths (fixed point); a feature      *)
(*    vector is the pair (vals, normSq) that stands for vals[i] divided by *)
(*    the square root of normSq, so that the L2 normalisation is exact.    *)
(*  - C++ indices are 0-based; sequences here are 1-based, so the feature  *)
(*    with C++ index i sits at position i + 1.                             *)
(***************************************************************************)
EXTENDS Integers, Sequences, FiniteSets, TLC

VARIABLES
    bucketOrder,  \* order in which this build leaves terms of equal frequency
    v,            \* the vectorizer under test
    w,            \* a second, identically constructed vectorizer
    file,         \* the persisted vectorizer file (Missing when absent)
    saved,        \* the vectorizer state the file was written from
    fitted,       \* the documents of the last fit call on v
    op,           \* the last operation called
    arg,          \* its argument
    ret,          \* what the last operation on v returned
    ret2,         \* what the last operation on w returned
    ub,           \* the last operation read outside an array
    dataset,      \* the Dataset: data, trainIndices, testIndices
    config_,      \* the analyzer's configuration values
    vectorizer_,  \* the analyzer's vectorizer
    model_,       \* the analyzer's classifier (NoModel when the pointer is null)
    disk,         \* the model directories: model.bin and vectorizer.bin of each
    succeeded     \* some loadModel or trainModel call has returned true

vecVars == <<bucketOrder, v, w, file, saved, fitted, op, arg, ret, ret2, ub>>

dataVars == <<dataset>>

analyzerVars == <<config_, vectorizer_, model_, disk, succeeded>>

vars == <<vecVars, dataVars, analyzerVars>>

-----------------------------------------------------------------------------
(* Bounds of the model *)

\* longest text handed to tokenize on its own
MaxTextLen == 5
\* largest n-gram bound given to the constructor of a tokenizer
MaxNgram == 3
\* most documents in one fit call
MaxDocs == 2
\* most documents in one fit call of the persistence scenario
MaxPersistDocs == 2

(* Program constants *)

\* fit(texts, maxDf = 0.5, ...)
DefaultMaxDf == 5
\* fit(texts, ..., maxFeatures = 10000)
DefaultMaxFeatures == 10000
\* TfidfVectorizer(..., minNgram = 1, ...)
DefaultMinNgram == 1
\* TfidfVectorizer(..., maxNgram = 2)
DefaultMaxNgram == 2

-----------------------------------------------------------------------------
(* Helpers *)

Range(s) == {s[i] : i \in DOMAIN s}

Max(a, b) == IF a >= b THEN a ELSE b

RECURSIVE SumSeq(_)
SumSeq(s) == IF s = <<>> THEN 0 ELSE s[1] + SumSeq(Tail(s))

RECURSIVE Flatten(_)
Flatten(ss) == IF ss = <<>> THEN <<>> ELSE ss[1] \o Flatten(Tail(ss))

\* static_cast<int>(x) of a double x = num / den, den > 0: truncation toward 0
TruncDiv(num, den) == IF num >= 0 THEN num \div den ELSE -((-num) \div den)

Char == {"a", "b", " "}

TextsUpTo(n) == UNION {[1..k -> Char] : k \in 0..n}

\* the documents fit is called with: "b a" and "a a b"
DocPool ==
    { <<"b", " ", "a">>,
      <<"a", " ", "a", " ", "b">> }

ListsUpTo(pool, n) == UNION {[1..k -> pool] : k \in 0..n}

CorporaUpTo(n) == ListsUpTo(DocPool, n)

-----------------------------------------------------------------------------
(* Return values *)

NoRet == [kind |-> "none"]
Threw(what) == [kind |-> "threw", val |-> what]
Returned(kind, val) == [kind |-> kind, val |-> val]

\* no object of the kind exists in the scenario
Absent == [kind |-> "absent"]

\* scenarios of the vectorizer and of the metrics construct no dataset and
\* no analyzer
NoDatasetNoAnalyzer ==
    /\ dataset = Absent
    /\ config_ = Absent
    /\ vectorizer_ = Absent
    /\ model_ = Absent
    /\ disk = Absent
    /\ succeeded = FALSE

\* the file system's view of the path: no file, or a file with its content
Missing == [exists |-> FALSE, data |-> <<>>]
FileOf(data) == [exists |-> TRUE, data |-> data]

-----------------------------------------------------------------------------
(* TfidfVectorizer::TfidfVectorizer *)

\* The constructor's parameters have the members' names: inside the body
\* minNgram, maxNgram and maxDf name the parameters, so the three
\* corrections change the parameters only, after the member initialisers
\* have already copied the values given.
TfidfVectorizer(sublinearTf, maxDf, maxFeatures, minNgram, maxNgram) ==
    LET pMinNgram == IF minNgram < 1 THEN 1 ELSE minNgram
        pMaxNgram == IF maxNgram < pMinNgram THEN pMinNgram ELSE maxNgram
        pMaxDf    == IF maxDf <= 0 \/ maxDf > 10 THEN 10 ELSE maxDf
    IN  [ sublinearTf         |-> sublinearTf,
          maxDf               |-> maxDf,
          maxFeatures         |-> maxFeatures,
          minNgram            |-> minNgram,
          maxNgram            |-> maxNgram,
          vocabulary          |-> <<>>,
          documentFrequencies |-> <<>>,
          totalDocuments      |-> 0 ]

-----------------------------------------------------------------------------
(* TfidfVectorizer::tokenize *)

\* while (iss >> word): the maximal runs of non-whitespace characters
RECURSIVE ExtractWords(_, _, _)
ExtractWords(text, i, word) ==
    IF i > Len(text)
    THEN IF word = <<>> THEN <<>> ELSE <<word>>
    ELSE IF text[i] = " "
         THEN IF word = <<>>
              THEN ExtractWords(text, i + 1, <<>>)
              ELSE <<word>> \o ExtractWords(text, i + 1, <<>>)
         ELSE ExtractWords(text, i + 1, Append(word, text[i]))

SplitWords(text) == ExtractWords(text, 1, <<>>)

\* words[i] (0-based i is position i + 1); past is what a read one past the
\* end of the vector yields
WordAt(words, pos, past) == IF pos <= Len(words) THEN words[pos] ELSE past

\* for (j = 1; j < n; ++j) ngram += "_" + words[i + j]
RECURSIVE NgramTail(_, _, _, _, _)
NgramTail(words, pos, j, n, past) ==
    IF j >= n THEN <<>>
    ELSE <<"_">> \o WordAt(words, pos + j, past)
                 \o NgramTail(words, pos, j + 1, n, past)

Ngram(words, pos, n, past) ==
    WordAt(words, pos, past) \o NgramTail(words, pos, 1, n, past)

\* NgramsOfLength stopping one n-gram early (i < words.size() - n)
NgramsOfLengthShort(words, n, past) ==
    IF Len(words) < n THEN <<>>
    ELSE [k \in 1..(Len(words) - n) |-> Ngram(words, k, n, past)]

\* if (words.size() < n) continue; for (i = 0; i <= words.size() - n; ++i)
NgramsOfLength(words, n, past) ==
    IF Len(words) < n THEN <<>>
    ELSE [k \in 1..(Len(words) - n + 1) |-> Ngram(words, k, n, past)]

\* for (n = minNgram; n <= maxNgram; ++n)
RECURSIVE NgramsFrom(_, _, _, _)
NgramsFrom(words, n, maxN, past) ==
    IF n > maxN THEN <<>>
    ELSE NgramsOfLength(words, n, past) \o NgramsFrom(words, n + 1, maxN, past)

\* some n in the loop's range makes words[i] read position words.size()
ReadsPastEnd(minN, maxN) == minN <= 0 /\ 0 <= maxN

\* what tokenize returns when no read leaves the vector
NothingPast == <<"?">>

Tokenize(self, text) ==
    NgramsFrom(SplitWords(text), self.minNgram, self.maxNgram, NothingPast)

-----------------------------------------------------------------------------
(* TfidfVectorizer::buildVocabulary *)

\* DocFreqs counting every occurrence of a term (no set of unique terms)
DocFreqsOccurrences(tokenizedDocs) ==
    LET terms == UNION {Range(tokenizedDocs[d]) : d \in DOMAIN tokenizedDocs}
    IN  [t \in terms |->
            SumSeq([d \in DOMAIN tokenizedDocs |->
                Cardinality({i \in DOMAIN tokenizedDocs[d] : tokenizedDocs[d][i] = t})])]

\* docFreqs: per term, the number of documents whose set of unique terms
\* holds it
DocFreqs(tokenizedDocs) ==
    LET terms == UNION {Range(tokenizedDocs[d]) : d \in DOMAIN tokenizedDocs}
    IN  [t \in terms |->
            Cardinality({d \in DOMAIN tokenizedDocs : t \in Range(tokenizedDocs[d])})]

\* int maxDfCount = (maxDf < 1.0) ? static_cast<int>(maxDf * totalDocuments)
\*                                : static_cast<int>(maxDf);
MaxDfCount(maxDf, totalDocuments) ==
    IF maxDf < 10 THEN TruncDiv(maxDf * totalDocuments, 10)
                  ELSE TruncDiv(maxDf, 10)

\* if (freq <= maxDfCount) filteredTerms.emplace_back(term, freq)
FilterTerms(docFreqs, maxDfCount) ==
    {t \in DOMAIN docFreqs : docFreqs[t] <= maxDfCount}

CharCode(c) == CASE c = "a" -> 1 [] c = "b" -> 2 [] c = "_" -> 3 [] OTHER -> 4

\* a number that tells two terms apart (a stand-in for the hash of the term)
RECURSIVE TermKey(_)
TermKey(t) == IF t = <<>> THEN 0 ELSE CharCode(t[Len(t)]) + 5 * TermKey(SubSeq(t, 1, Len(t) - 1))

\* the order in which the unordered_map hands out two terms
BucketBefore(t, u) ==
    IF bucketOrder = "ascending" THEN TermKey(t) < TermKey(u)
                                 ELSE TermKey(t) > TermKey(u)

\* SortsBefore comparing no frequencies: the terms stay in the order the
\* unordered_map hands them out
SortsBeforeUnsorted(t, u, docFreqs) ==
    BucketBefore(t, u)

\* std::sort by descending frequency; equal frequencies stay in the order
\* the build leaves them in
SortsBefore(t, u, docFreqs) ==
    \/ docFreqs[t] > docFreqs[u]
    \/ docFreqs[t] = docFreqs[u] /\ BucketBefore(t, u)

RECURSIVE SortByFrequency(_, _)
SortByFrequency(terms, docFreqs) ==
    IF terms = {} THEN <<>>
    ELSE LET first == CHOOSE t \in terms :
                        \A u \in terms \ {t} : SortsBefore(t, u, docFreqs)
         IN  <<first>> \o SortByFrequency(terms \ {first}, docFreqs)

\* if (filteredTerms.size() > maxFeatures) filteredTerms.resize(maxFeatures)
LimitFeatures(sortedTerms, maxFeatures) ==
    IF Len(sortedTerms) > maxFeatures THEN SubSeq(sortedTerms, 1, maxFeatures)
                                      ELSE sortedTerms

\* BuildVocabulary numbering the features from 1
BuildVocabularyFromOne(self, tokenizedDocs, maxDf, maxFeatures) ==
    LET docFreqs   == DocFreqs(tokenizedDocs)
        maxDfCount == MaxDfCount(maxDf, self.totalDocuments)
        filtered   == SortByFrequency(FilterTerms(docFreqs, maxDfCount), docFreqs)
        kept       == LimitFeatures(filtered, maxFeatures)
    IN  [self EXCEPT
            !.vocabulary = [t \in Range(kept) |->
                              CHOOSE i \in DOMAIN kept : kept[i] = t],
            !.documentFrequencies = [i \in DOMAIN kept |-> docFreqs[kept[i]]]]

BuildVocabulary(self, tokenizedDocs, maxDf, maxFeatures) ==
    LET docFreqs   == DocFreqs(tokenizedDocs)
        maxDfCount == MaxDfCount(maxDf, self.totalDocuments)
        filtered   == SortByFrequency(FilterTerms(docFreqs, maxDfCount), docFreqs)
        kept       == LimitFeatures(filtered, maxFeatures)
    IN  [self EXCEPT
            !.vocabulary = [t \in Range(kept) |->
                              (CHOOSE i \in DOMAIN kept : kept[i] = t) - 1],
            !.documentFrequencies = [i \in DOMAIN kept |-> docFreqs[kept[i]]]]

-----------------------------------------------------------------------------
(* TfidfVectorizer::fit *)

\* Fit returning at once on an empty corpus, before the reset
FitReturnsBeforeReset(self, texts, maxDf, maxFeatures) ==
    IF Len(texts) = 0 THEN self
    ELSE LET reset  == [self EXCEPT !.totalDocuments = Len(texts)]
             params == [reset EXCEPT
                    !.maxDf = IF maxDf > 0 THEN maxDf ELSE @,
                    !.maxFeatures = IF maxFeatures > 0 THEN maxFeatures ELSE @]
             tokenizedDocs == [i \in DOMAIN texts |-> Tokenize(params, texts[i])]
         IN  BuildVocabulary(params, tokenizedDocs, params.maxDf, params.maxFeatures)

Fit(self, texts, maxDf, maxFeatures) ==
    LET reset == [self EXCEPT !.vocabulary = <<>>,
                              !.documentFrequencies = <<>>,
                              !.totalDocuments = Len(texts)]
    IN  IF Len(texts) = 0 THEN reset
        ELSE LET params == [reset EXCEPT
                    !.maxDf = IF maxDf > 0 THEN maxDf ELSE @,
                    !.maxFeatures = IF maxFeatures > 0 THEN maxFeatures ELSE @]
                 tokenizedDocs == [i \in DOMAIN texts |-> Tokenize(params, texts[i])]
             IN  BuildVocabulary(params, tokenizedDocs, params.maxDf, params.maxFeatures)

-----------------------------------------------------------------------------
(* TfidfVectorizer::transform *)

\* std::log of a whole number, in thousandths
LnTable == <<0, 693, 1099, 1386, 1609, 1792, 1946, 2079, 2197, 2303, 2398, 2485>>

Ln(n) == LnTable[n]

\* tf * idf of transformSingleDocument, in thousandths
TfIdf(self, freq, docFreq) ==
    LET tf  == IF self.sublinearTf THEN 1000 + Ln(freq) ELSE 1000 * freq
        idf == (Ln(self.totalDocuments + 1) - Ln(docFreq + 1)) + 1000
    IN  (tf * idf) \div 1000

\* NormalizeVector dividing by the sum of the values (the L1 norm)
NormalizeVectorL1(vector) ==
    LET total == SumSeq(vector)
    IN  IF total > 0 THEN [vals |-> vector, normSq |-> total * total]
                     ELSE [vals |-> vector, normSq |-> 1]

\* squaredSum > 0: every value is divided by sqrt(squaredSum); else untouched
NormalizeVector(vector) ==
    LET squaredSum == SumSeq([i \in DOMAIN vector |-> vector[i] * vector[i]])
    IN  IF squaredSum > 0 THEN [vals |-> vector, normSq |-> squaredSum]
                          ELSE [vals |-> vector, normSq |-> 1]

TermFreqs(tokens) ==
    [t \in Range(tokens) |-> Cardinality({i \in DOMAIN tokens : tokens[i] = t})]

\* TransformSingleDocument weighting every vocabulary term, a term the
\* document lacks as if it occurred once
TransformSingleDocumentDense(self, text) ==
    LET termFreqs == TermFreqs(Tokenize(self, text))
        found     == DOMAIN termFreqs \cap DOMAIN self.vocabulary
        featureVector ==
            [i \in 1..Cardinality(DOMAIN self.vocabulary) |->
                IF \E t \in found : self.vocabulary[t] = i - 1
                THEN LET t == CHOOSE u \in found : self.vocabulary[u] = i - 1
                     IN  TfIdf(self, termFreqs[t], self.documentFrequencies[i])
                ELSE TfIdf(self, 1, self.documentFrequencies[i])]
    IN  NormalizeVector(featureVector)

TransformSingleDocument(self, text) ==
    LET termFreqs == TermFreqs(Tokenize(self, text))
        found     == DOMAIN termFreqs \cap DOMAIN self.vocabulary
        featureVector ==
            [i \in 1..Cardinality(DOMAIN self.vocabulary) |->
                IF \E t \in found : self.vocabulary[t] = i - 1
                THEN LET t == CHOOSE u \in found : self.vocabulary[u] = i - 1
                     IN  TfIdf(self, termFreqs[t], self.documentFrequencies[i])
                ELSE 0]
    IN  NormalizeVector(featureVector)

\* Transform taking "no documents seen" for "not fitted"
TransformChecksDocuments(self, texts) ==
    IF self.totalDocuments = 0
    THEN Threw("Vocabulary is empty. Call fit() first.")
    ELSE Returned("matrix", [i \in DOMAIN texts |-> TransformSingleDocument(self, texts[i])])

Transform(self, texts) ==
    IF DOMAIN self.vocabulary = {}
    THEN Threw("Vocabulary is empty. Call fit() first.")
    ELSE Returned("matrix", [i \in DOMAIN texts |-> TransformSingleDocument(self, texts[i])])

-----------------------------------------------------------------------------
(* TfidfVectorizer::fitTransform *)

\* FitTransform fitting with the parameters the vectorizer already holds
FitTransformOwnParams(self, texts) ==
    LET after == Fit(self, texts, 0, 0)
    IN  [self |-> after, ret |-> Transform(after, texts)]

\* fit(texts) with fit's default maxDf and maxFeatures, then transform(texts)
FitTransform(self, texts) ==
    LET after == Fit(self, texts, DefaultMaxDf, DefaultMaxFeatures)
    IN  [self |-> after, ret |-> Transform(after, texts)]

-----------------------------------------------------------------------------
(* The vectorizer's life: constructed, then fit / transform / fitTransform *)

\* (minNgram, maxNgram) given to the constructor: tokenize reads inside the
\* word vector for each of them
LifeNgrams == {<<1, 1>>, <<1, 2>>, <<2, 1>>}

CtorMaxDf == {5, 15}
CtorMaxFeatures == {1, DefaultMaxFeatures}

\* (maxDf, maxFeatures) given to fit: the defaults, no override, and others
FitParams == {<<DefaultMaxDf, DefaultMaxFeatures>>, <<0, 0>>,
              <<10, DefaultMaxFeatures>>, <<20, 1>>}

\* the document lists transform is called with
TransformInputs ==
    ListsUpTo(DocPool \cup {<<>>, <<"a">>}, 1)
        \cup {<< <<"a", " ", "a", " ", "b">>, <<>> >>}

Constructed(vec, texts) ==
    /\ v = vec
    /\ w = vec
    /\ file = Missing
    /\ saved = vec
    /\ fitted = texts
    /\ op = "construct"
    /\ arg = <<>>
    /\ ret = NoRet
    /\ ret2 = NoRet
    /\ ub = FALSE
    /\ NoDatasetNoAnalyzer

Init ==
    /\ bucketOrder \in {"ascending", "descending"}
    /\ \E s \in BOOLEAN, d \in CtorMaxDf, f \in CtorMaxFeatures, r \in LifeNgrams :
          Constructed(TfidfVectorizer(s, d, f, r[1], r[2]), <<>>)

FitCall ==
    \E texts \in CorporaUpTo(MaxDocs), p \in FitParams :
        /\ v' = Fit(v, texts, p[1], p[2])
        /\ fitted' = texts
        /\ op' = "fit"
        /\ arg' = <<>>
        /\ ret' = NoRet
        /\ UNCHANGED <<dataVars, analyzerVars, bucketOrder, w, file, saved, ret2, ub>>

\* TransformCall looking terms up with vocabulary[term], which enters
\* every unseen term with index 0
TransformCallInserting ==
    \E texts \in TransformInputs :
        LET seen == UNION {Range(Tokenize(v, texts[d])) : d \in DOMAIN texts}
        IN  /\ ret' = Transform(v, texts)
            /\ v' = IF DOMAIN v.vocabulary = {} THEN v
                    ELSE [v EXCEPT !.vocabulary =
                            [t \in DOMAIN v.vocabulary \cup seen |->
                                IF t \in DOMAIN v.vocabulary THEN v.vocabulary[t] ELSE 0]]
            /\ op' = "transform"
            /\ arg' = texts
            /\ UNCHANGED <<dataVars, analyzerVars, bucketOrder, w, file, saved, fitted, ret2, ub>>

TransformCall ==
    \E texts \in TransformInputs :
        /\ ret' = Transform(v, texts)
        /\ op' = "transform"
        /\ arg' = texts
        /\ UNCHANGED <<dataVars, analyzerVars, bucketOrder, v, w, file, saved, fitted, ret2, ub>>

FitTransformCall ==
    \E texts \in CorporaUpTo(MaxDocs) :
        LET r == FitTransform(v, texts)
        IN  /\ v' = r.self
            /\ ret' = r.ret
            /\ fitted' = texts
            /\ op' = "fitTransform"
            /\ arg' = texts
            /\ UNCHANGED <<dataVars, analyzerVars, bucketOrder, w, file, saved, ret2, ub>>

Next == FitCall \/ TransformCall \/ FitTransformCall

Spec == Init /\ [][Next]_vars

-----------------------------------------------------------------------------
(* Two identically constructed vectorizers: v is fitted and then asked to  *)
(* transform, w is asked to fitTransform, all on the documents in fitted.  *)

InitTwoStep ==
    /\ bucketOrder \in {"ascending", "descending"}
    /\ \E s \in BOOLEAN, d \in CtorMaxDf, f \in CtorMaxFeatures, r \in LifeNgrams,
          texts \in CorporaUpTo(MaxDocs) :
          Constructed(TfidfVectorizer(s, d, f, r[1], r[2]), texts)

TwoStepFit ==
    /\ op = "construct"
    /\ v' = Fit(v, fitted, DefaultMaxDf, DefaultMaxFeatures)
    /\ op' = "fit"
    /\ UNCHANGED <<dataVars, analyzerVars, bucketOrder, w, file, saved, fitted, arg, ret, ret2, ub>>

TwoStepTransform ==
    /\ op = "fit"
    /\ ret' = Transform(v, fitted)
    /\ op' = "transform"
    /\ UNCHANGED <<dataVars, analyzerVars, bucketOrder, v, w, file, saved, fitted, arg, ret2, ub>>

OneStepFitTransform ==
    /\ ret2 = NoRet
    /\ LET r == FitTransform(w, fitted)
       IN  /\ w' = r.self
           /\ ret2' = r.ret
    /\ UNCHANGED <<dataVars, analyzerVars, bucketOrder, v, file, saved, fitted, op, arg, ret, ub>>

NextTwoStep == TwoStepFit \/ TwoStepTransform \/ OneStepFitTransform

SpecTwoStep == InitTwoStep /\ [][NextTwoStep]_vars

-----------------------------------------------------------------------------
(* tokenize called on its own *)

\* what a read of words[words.size()] can yield: bytes that happen to form
\* an empty string, the text of a word freed earlier, or anything else
PastEndReads == {<<>>, <<"a">>, <<"?">>}

\* tokenize(text) on v, text being the argument drawn with the constructor's
TokenizeCall ==
    /\ op = "construct"
    /\ \E past \in (IF ReadsPastEnd(v.minNgram, v.maxNgram) THEN PastEndReads
                                                           ELSE {NothingPast}) :
          ret' = Returned("tokens",
                    NgramsFrom(SplitWords(arg), v.minNgram, v.maxNgram, past))
    /\ ub' = ReadsPastEnd(v.minNgram, v.maxNgram)
    /\ op' = "tokenize"
    /\ UNCHANGED <<dataVars, analyzerVars, bucketOrder, v, w, file, saved, fitted, arg, ret2>>

ConstructedFor(vec, text) ==
    /\ bucketOrder = "ascending"
    /\ v = vec
    /\ w = vec
    /\ file = Missing
    /\ saved = vec
    /\ fitted = <<>>
    /\ op = "construct"
    /\ arg = text
    /\ ret = NoRet
    /\ ret2 = NoRet
    /\ ub = FALSE
    /\ NoDatasetNoAnalyzer

\* n-gram bounds for which tokenize stays inside the word vector
InitTokenize ==
    \E minN \in 1..MaxNgram, maxN \in 1..MaxNgram, text \in TextsUpTo(MaxTextLen) :
        ConstructedFor(
            TfidfVectorizer(TRUE, DefaultMaxDf, DefaultMaxFeatures, minN, maxN), text)

SpecTokenize == InitTokenize /\ [][TokenizeCall]_vars

\* every n-gram bound the constructor accepts, the degenerate ones included
InitNgram ==
    \E minN \in 0..MaxNgram, maxN \in 0..MaxNgram, text \in TextsUpTo(MaxTextLen) :
        ConstructedFor(
            TfidfVectorizer(TRUE, DefaultMaxDf, DefaultMaxFeatures, minN, maxN), text)

SpecNgram == InitNgram /\ [][TokenizeCall]_vars

-----------------------------------------------------------------------------
(* TfidfVectorizer::save *)

\* for (const auto& [term, index] : vocabulary): the map's iteration order
RECURSIVE IterationOrder(_)
IterationOrder(terms) ==
    IF terms = {} THEN <<>>
    ELSE LET first == CHOOSE t \in terms : \A u \in terms \ {t} : BucketBefore(t, u)
         IN  <<first>> \o IterationOrder(terms \ {first})

\* termLength, the term's characters, index
WriteEntry(self, term) == <<Len(term)>> \o term \o <<self.vocabulary[term]>>

\* Serialize writing maxNgram where minNgram belongs
SerializeMaxNgramTwice(self) ==
    LET order == IterationOrder(DOMAIN self.vocabulary)
    IN  <<self.sublinearTf, self.maxDf, self.maxFeatures, self.maxNgram,
          self.maxNgram, self.totalDocuments, Cardinality(DOMAIN self.vocabulary)>>
        \o Flatten([i \in DOMAIN order |-> WriteEntry(self, order[i])])
        \o <<Len(self.documentFrequencies)>>
        \o self.documentFrequencies

\* The file is a sequence of units: one per scalar written (bool, double,
\* size_t, int) and one per character of a term.
Serialize(self) ==
    LET order == IterationOrder(DOMAIN self.vocabulary)
    IN  <<self.sublinearTf, self.maxDf, self.maxFeatures, self.minNgram,
          self.maxNgram, self.totalDocuments, Cardinality(DOMAIN self.vocabulary)>>
        \o Flatten([i \in DOMAIN order |-> WriteEntry(self, order[i])])
        \o <<Len(self.documentFrequencies)>>
        \o self.documentFrequencies

\* ofstream could not be opened: false and no file; else the file and true
Save(self, writable, old) ==
    IF writable THEN [ok |-> TRUE, file |-> FileOf(Serialize(self))]
                ELSE [ok |-> FALSE, file |-> old]

-----------------------------------------------------------------------------
(* TfidfVectorizer::load *)

\* a size for which std::string(n, 0) and vector::resize(n) throw
TooLarge == 1000000

\* what an uninitialised local (vocabSize, termLength, index, dfSize) holds
JunkValues == {0, 1, TooLarge}

\* file.read into a scalar: the unit at pos, or, the stream having failed,
\* the target left as it was
ReadOr(f, pos, old) == IF pos <= Len(f) THEN f[pos] ELSE old

\* vocabulary[term] = index
Put(vocab, term, index) ==
    [t \in DOMAIN vocab \cup {term} |-> IF t = term THEN index ELSE vocab[t]]

\* the loop over vocabSize entries, from position pos of the file
RECURSIVE ReadVocabulary(_, _, _, _, _)
ReadVocabulary(f, pos, left, vocab, junk) ==
    IF left = 0 THEN [threw |-> FALSE, pos |-> pos, vocabulary |-> vocab]
    ELSE LET termLength == ReadOr(f, pos, junk)
         IN  IF termLength >= TooLarge
             THEN [threw |-> TRUE, pos |-> pos, vocabulary |-> vocab]
             ELSE LET term  == [k \in 1..termLength |->
                                   IF pos + k <= Len(f) THEN f[pos + k] ELSE "NUL"]
                      index == ReadOr(f, pos + termLength + 1, junk)
                  IN  ReadVocabulary(f, pos + termLength + 2, left - 1,
                                     Put(vocab, term, index), junk)

\* No read is checked and the stream throws nothing: only an allocation
\* that fails reaches the catch block.
Load(self, path, junk) ==
    IF ~path.exists THEN [ok |-> FALSE, self |-> self]
    ELSE
    LET f      == path.data
        params == [self EXCEPT
                     !.sublinearTf    = ReadOr(f, 1, @),
                     !.maxDf          = ReadOr(f, 2, @),
                     !.maxFeatures    = ReadOr(f, 3, @),
                     !.minNgram       = ReadOr(f, 4, @),
                     !.maxNgram       = ReadOr(f, 5, @),
                     !.totalDocuments = ReadOr(f, 6, @)]
        vocabSize == ReadOr(f, 7, junk)
        entries   == ReadVocabulary(f, 8, vocabSize, <<>>, junk)
        withVocab == [params EXCEPT !.vocabulary = entries.vocabulary]
        dfSize    == ReadOr(f, entries.pos, junk)
        old       == self.documentFrequencies
    IN  IF entries.threw THEN [ok |-> FALSE, self |-> withVocab]
        ELSE IF dfSize >= TooLarge THEN [ok |-> FALSE, self |-> withVocab]
        ELSE [ok |-> TRUE,
              self |-> [withVocab EXCEPT !.documentFrequencies =
                          [i \in 1..dfSize |->
                              IF entries.pos + i <= Len(f) THEN f[entries.pos + i]
                              ELSE IF i <= Len(old) THEN old[i] ELSE 0]]]

-----------------------------------------------------------------------------
(* Persistence: fit, save and load in any order *)

PersistNgrams == {<<1, 1>>, <<1, 2>>}

PersistFitParams == {<<DefaultMaxDf, DefaultMaxFeatures>>, <<20, 2>>}

InitPersist ==
    /\ bucketOrder \in {"ascending", "descending"}
    /\ \E s \in BOOLEAN, r \in PersistNgrams :
          Constructed(TfidfVectorizer(s, DefaultMaxDf, DefaultMaxFeatures, r[1], r[2]),
                      <<>>)

PersistFit ==
    \E texts \in CorporaUpTo(MaxPersistDocs), p \in PersistFitParams :
        /\ v' = Fit(v, texts, p[1], p[2])
        /\ fitted' = texts
        /\ op' = "fit"
        /\ arg' = <<>>
        /\ ret' = NoRet
        /\ UNCHANGED <<dataVars, analyzerVars, bucketOrder, w, file, saved, ret2, ub>>

SaveCall ==
    \E writable \in BOOLEAN :
        LET r == Save(v, writable, file)
        IN  /\ file' = r.file
            /\ saved' = IF r.ok THEN v ELSE saved
            /\ ret' = Returned("bool", r.ok)
            /\ op' = "save"
            /\ arg' = <<>>
            /\ UNCHANGED <<dataVars, analyzerVars, bucketOrder, v, w, fitted, ret2, ub>>

\* the file holds everything save wrote
Intact == file.exists /\ Len(file.data) = Len(Serialize(saved))

\* TfidfVectorizer(): the constructor's default arguments
FreshVectorizer ==
    TfidfVectorizer(TRUE, DefaultMaxDf, DefaultMaxFeatures, DefaultMinNgram, DefaultMaxNgram)

\* load(path), on v or on a vectorizer constructed just now with the default
\* arguments, which then takes v's place
LoadCall ==
    \E fresh \in BOOLEAN,
       junk \in (IF ~file.exists \/ Intact THEN {0} ELSE JunkValues) :
        LET r == Load(IF fresh THEN FreshVectorizer ELSE v, file, junk)
        IN  /\ v' = r.self
            /\ ret' = Returned("bool", r.ok)
            /\ op' = "load"
            /\ arg' = [fresh |-> fresh]
            /\ UNCHANGED <<dataVars, analyzerVars, bucketOrder, w, file, saved, fitted, ret2, ub>>

NextPersist == PersistFit \/ SaveCall \/ LoadCall

SpecPersist == InitPersist /\ [][NextPersist]_vars

-----------------------------------------------------------------------------
(* A damaged file: fit, save, the file cut short, then load *)

\* the file loses its end: only its first keep units remain
Truncate ==
    /\ file.exists
    /\ \E keep \in 0..(Len(file.data) - 1) :
          file' = FileOf(SubSeq(file.data, 1, keep))
    /\ op' = "truncate"
    /\ UNCHANGED <<dataVars, analyzerVars, bucketOrder, v, w, saved, fitted, arg, ret, ret2, ub>>

NextCorrupt ==
    \/ op = "construct" /\ PersistFit
    \/ op = "fit" /\ SaveCall
    \/ op = "save" /\ Truncate
    \/ op = "truncate" /\ LoadCall

SpecCorrupt == InitPersist /\ [][NextCorrupt]_vars

-----------------------------------------------------------------------------
(* Properties of the vectorizer *)

SumSquares(vals) == SumSeq([i \in DOMAIN vals |-> vals[i] * vals[i]])

AllZero(vals) == \A i \in DOMAIN vals : vals[i] = 0

IsMatrix == op \in {"transform", "fitTransform"} /\ ret.kind = "matrix"

\* C1: every vector transform returns either has every entry 0 (and was not
\* divided by anything) or has squared L2 norm exactly 1: the squares of
\* its values sum to the square of the norm they were divided by, which is
\* never 0.
C1_UnitNormOrZero ==
    IsMatrix =>
        \A i \in DOMAIN ret.val :
            LET vec == ret.val[i]
            IN  /\ vec.normSq > 0
                /\ IF AllZero(vec.vals) THEN vec.normSq = 1
                                        ELSE SumSquares(vec.vals) = vec.normSq

\* a transform that returned an all-zero vector next to a vector with two
\* non-zero entries
C1_Witness ==
    /\ op = "transform"
    /\ ret.kind = "matrix"
    /\ \E i \in DOMAIN ret.val : AllZero(ret.val[i].vals) /\ ret.val[i].vals # <<>>
    /\ \E i \in DOMAIN ret.val :
          Cardinality({k \in DOMAIN ret.val[i].vals : ret.val[i].vals[k] # 0}) >= 2

SameResult(r1, r2) ==
    /\ r1.kind = r2.kind
    /\ r1.kind = "matrix" => r1.val = r2.val

\* C2: once v has been fitted on the documents and has transformed them, and
\* the identically constructed w has fitTransformed them, the two results
\* are the same (the same matrix, or the same unfitted-model error).
C2_FitThenTransformIsFitTransform ==
    (op = "transform" /\ ret2.kind # "none") => SameResult(ret, ret2)

\* both ways returned a matrix with a non-zero row, from a vectorizer whose
\* constructor arguments differ from fit's defaults
C2_Witness ==
    /\ op = "transform"
    /\ ret.kind = "matrix"
    /\ ret2.kind = "matrix"
    /\ saved.maxFeatures = 1
    /\ saved.maxDf # DefaultMaxDf
    /\ \E i \in DOMAIN ret2.val : ~AllZero(ret2.val[i].vals)

\* C3: a load of the file save wrote returns true and leaves the loading
\* vectorizer with the vocabulary, document frequencies, hyperparameters and
\* totalDocuments of the vectorizer that was saved, and so with the same
\* transform of every document list.
C3_SaveLoadRoundTrip ==
    (op = "load" /\ file.exists) =>
        /\ ret.val = TRUE
        /\ v.vocabulary = saved.vocabulary
        /\ v.documentFrequencies = saved.documentFrequencies
        /\ v.totalDocuments = saved.totalDocuments
        /\ v.sublinearTf = saved.sublinearTf
        /\ v.maxDf = saved.maxDf
        /\ v.maxFeatures = saved.maxFeatures
        /\ v.minNgram = saved.minNgram
        /\ v.maxNgram = saved.maxNgram
        /\ \A texts \in TransformInputs :
              SameResult(Transform(v, texts), Transform(saved, texts))

\* a fresh vectorizer loaded a file that holds several terms and differs
\* from the fresh one in every hyperparameter it can
C3_Witness ==
    /\ op = "load"
    /\ arg.fresh
    /\ ret.val = TRUE
    /\ Cardinality(DOMAIN v.vocabulary) >= 2
    /\ v.maxNgram # DefaultMaxNgram
    /\ v.maxDf # DefaultMaxDf
    /\ ~v.sublinearTf

\* C4: transform raises the unfitted-model error exactly when the vocabulary
\* is empty, and returns a matrix otherwise.
C4_ThrowsIffVocabularyEmpty ==
    op = "transform" =>
        /\ ret.kind \in {"threw", "matrix"}
        /\ ret.kind = "threw" <=> DOMAIN v.vocabulary = {}

\* transform raised after a fit on documents whose every token the
\* document-frequency filter removed
C4_Witness ==
    /\ op = "transform"
    /\ ret.kind = "threw"
    /\ v.totalDocuments > 0
    /\ \E d \in DOMAIN fitted : Tokenize(v, fitted[d]) # <<>>

\* C5: load returns true only if the whole of what save wrote was read; it
\* returns false for a missing and for a truncated file.
C5_LoadFailsOnDamagedFile ==
    op = "load" => (ret.val = TRUE => Intact)

\* C6: the vocabulary's indices are exactly 0 .. N-1 (so no two terms share
\* one) and the document-frequency table has N entries, N being the number
\* of terms.
C6_ContiguousIndices ==
    LET N == Cardinality(DOMAIN v.vocabulary)
    IN  /\ {v.vocabulary[t] : t \in DOMAIN v.vocabulary} = 0..(N - 1)
        /\ Len(v.documentFrequencies) = N

\* a vectorizer last fitted on other documents loaded a file that holds
\* two terms or more
C6_Witness ==
    /\ op = "load"
    /\ ~arg.fresh
    /\ ret.val = TRUE
    /\ Cardinality(DOMAIN v.vocabulary) >= 2
    /\ fitted # <<>>
    /\ v.totalDocuments # Len(fitted)

Occurrences(tokens, t) == Cardinality({i \in DOMAIN tokens : tokens[i] = t})

\* C7: after fit, the document frequency stored for a vocabulary term is the
\* number of fitted documents whose token list holds the term at least once.
C7_DocumentFrequencyCountsDocuments ==
    op = "fit" =>
        \A t \in DOMAIN v.vocabulary :
            v.documentFrequencies[v.vocabulary[t] + 1] =
                Cardinality({d \in DOMAIN fitted :
                                Occurrences(Tokenize(v, fitted[d]), t) >= 1})

\* a fit kept a term that one document holds twice
C7_Witness ==
    /\ op = "fit"
    /\ \E t \in DOMAIN v.vocabulary : \E d \in DOMAIN fitted :
          Occurrences(Tokenize(v, fitted[d]), t) >= 2

-----------------------------------------------------------------------------
(* Properties of tokenize *)

\* the text starts a word at position i
StartsWord(text, i) == text[i] # " " /\ (i = 1 \/ text[i - 1] = " ")

NonSpace(c) == c # " "

\* words joined by "_"
RECURSIVE JoinWords(_)
JoinWords(ws) ==
    IF Len(ws) = 1 THEN ws[1] ELSE ws[1] \o <<"_">> \o JoinWords(Tail(ws))

\* n-grams of length n a text of W words has
RunsOfLength(W, n) == Max(0, W - n + 1)

\* n-grams of the lengths lo .. n - 1 a text of W words has
RunsBelow(W, lo, n) == SumSeq([m \in 1..(n - lo) |-> RunsOfLength(W, lo + m - 1)])

\* C8: tokenize splits the text at whitespace and returns, for n from
\* minNgram to maxNgram in increasing order, every run of n consecutive
\* words joined by "_", from left to right: max(0, W - n + 1) tokens for
\* each n, and nothing else.
C8_AllNgramsInOrder ==
    op = "tokenize" =>
        LET words == SplitWords(arg)
            W     == Cardinality({i \in DOMAIN arg : StartsWord(arg, i)})
            lo    == v.minNgram
            hi    == v.maxNgram
        IN  /\ Len(words) = W
            /\ Flatten(words) = SelectSeq(arg, NonSpace)
            /\ Len(ret.val) = RunsBelow(W, lo, hi + 1)
            /\ \A n \in lo..hi : \A i \in 1..RunsOfLength(W, n) :
                  ret.val[RunsBelow(W, lo, n) + i] = JoinWords(SubSeq(words, i, i + n - 1))

\* tokenize returned the three unigrams, two bigrams and one trigram of a
\* text of three words
C8_Witness ==
    /\ op = "tokenize"
    /\ v.minNgram = 1
    /\ v.maxNgram = 3
    /\ Len(SplitWords(arg)) = 3
    /\ Len(ret.val) = 6

\* C9: a vectorizer constructed with minNgram < 1 tokenizes as one with
\* minNgram = 1 does, one constructed with maxNgram < minNgram as one with
\* maxNgram = minNgram does, and tokenize reads no word outside the text.
C9_DegenerateBoundsCorrected ==
    op = "tokenize" =>
        LET lo == IF v.minNgram < 1 THEN 1 ELSE v.minNgram
            hi == IF v.maxNgram < lo THEN lo ELSE v.maxNgram
        IN  /\ ~ub
            /\ ret.val = NgramsFrom(SplitWords(arg), lo, hi, NothingPast)

\* the effective maxDf as the cutoff the claim describes, in tenths of a
\* document: a fraction of the documents up to 1.0, a count above
ClaimedCutoff(maxDf, totalDocuments) ==
    IF maxDf <= 10 THEN maxDf * totalDocuments ELSE maxDf

\* C10: after fit no vocabulary term has a document frequency above the
\* cutoff (maxDf times the number of documents for maxDf in (0, 1], maxDf
\* itself above), and with maxDf = 1.0 the document-frequency filter
\* discards nothing: every token of the documents is in the vocabulary
\* unless maxFeatures cut it.
C10_MaxDfCutoff ==
    (op = "fit" /\ fitted # <<>>) =>
        LET tokens == UNION {Range(Tokenize(v, fitted[d])) : d \in DOMAIN fitted}
        IN  /\ \A t \in DOMAIN v.vocabulary :
                  10 * v.documentFrequencies[v.vocabulary[t] + 1]
                      <= ClaimedCutoff(v.maxDf, v.totalDocuments)
            /\ (v.maxDf = 10 /\ Cardinality(tokens) <= v.maxFeatures)
                  => DOMAIN v.vocabulary = tokens

-----------------------------------------------------------------------------
(* fit(documents) with no overrides, after any constructor arguments *)

\* maxDf given to the constructor: 0.2, 0.5 and 1.0
DefaultFitMaxDf == {2, 5, 10}

\* maxFeatures given to the constructor
DefaultFitMaxFeatures == {1, 2, DefaultMaxFeatures}

InitDefaultFit ==
    /\ bucketOrder \in {"ascending", "descending"}
    /\ \E s \in BOOLEAN, d \in DefaultFitMaxDf, f \in DefaultFitMaxFeatures,
          r \in PersistNgrams :
          Constructed(TfidfVectorizer(s, d, f, r[1], r[2]), <<>>)

\* fit(texts): the call passes no maxDf and no maxFeatures, so the
\* declaration's default arguments are what fit receives
DefaultFitCall ==
    \E texts \in CorporaUpTo(MaxDocs) :
        /\ v' = Fit(v, texts, DefaultMaxDf, DefaultMaxFeatures)
        /\ fitted' = texts
        /\ op' = "fit"
        /\ UNCHANGED <<dataVars, analyzerVars, bucketOrder, w, file, saved, arg, ret, ret2, ub>>

SpecDefaultFit == InitDefaultFit /\ [][DefaultFitCall]_vars

\* C11: after fit(documents) with no overrides, a vectorizer constructed
\* with maxFeatures = M has at most M features, and one constructed with
\* maxDf = f has no vocabulary term that more than the fraction f of the
\* documents hold (saved is the vectorizer as constructed).
C11_ConstructorParamsGovernFit ==
    op = "fit" =>
        /\ Cardinality(DOMAIN v.vocabulary) <= saved.maxFeatures
        /\ \A t \in DOMAIN v.vocabulary :
              10 * v.documentFrequencies[v.vocabulary[t] + 1]
                  <= saved.maxDf * v.totalDocuments

-----------------------------------------------------------------------------
(* fit after fit: v is fitted again and again, w is constructed anew with  *)
(* the parameters v holds and fitted once, by the same call                *)

\* a vectorizer constructed with the parameters self holds now
SameParameters(self) ==
    TfidfVectorizer(self.sublinearTf, self.maxDf, self.maxFeatures,
                    self.minNgram, self.maxNgram)

\* fit(texts, maxDf, maxFeatures) on v and on a new vectorizer w
RefitCall ==
    \E texts \in CorporaUpTo(MaxDocs), p \in FitParams :
        /\ v' = Fit(v, texts, p[1], p[2])
        /\ w' = Fit(SameParameters(v), texts, p[1], p[2])
        /\ fitted' = texts
        /\ arg' = [maxDf |-> p[1], maxFeatures |-> p[2], before |-> fitted]
        /\ op' = "fit"
        /\ UNCHANGED <<dataVars, analyzerVars, bucketOrder, file, saved, ret, ret2, ub>>

SpecRefit == InitPersist /\ [][RefitCall]_vars

\* C12: after fit(C2), whatever was fitted before, v has the vocabulary,
\* document frequencies and totalDocuments that fit(C2) leaves in a
\* vectorizer constructed anew with v's parameters; and when the call gives
\* both maxDf and maxFeatures (as the plain fit(C2) does, by its defaults),
\* also those it leaves in the vectorizer as first constructed (saved).
C12_RefitDiscardsPriorState ==
    op = "fit" =>
        /\ v.vocabulary = w.vocabulary
        /\ v.documentFrequencies = w.documentFrequencies
        /\ v.totalDocuments = w.totalDocuments
        /\ (arg.maxDf > 0 /\ arg.maxFeatures > 0) =>
              LET fresh == Fit(saved, fitted, arg.maxDf, arg.maxFeatures)
              IN  /\ v.vocabulary = fresh.vocabulary
                  /\ v.documentFrequencies = fresh.documentFrequencies
                  /\ v.totalDocuments = fresh.totalDocuments

\* a second fit, on fewer documents than the first, left a vocabulary that
\* lacks a term the first fit had read
C12_Witness ==
    /\ op = "fit"
    /\ arg.before # <<>>
    /\ Len(fitted) < Len(arg.before)
    /\ DOMAIN v.vocabulary # {}
    /\ \E d \in DOMAIN arg.before :
          \E t \in Range(Tokenize(v, arg.before[d])) : t \notin DOMAIN v.vocabulary

-----------------------------------------------------------------------------
(* Empty inputs *)

\* C13: fit raises nothing, on an empty document list too; transform on a
\* vectorizer with a vocabulary raises nothing and returns one vector per
\* document, each as long as the vocabulary, whose entry i is non-zero
\* exactly when the vocabulary term of index i occurs in the document: the
\* vector of an empty document is all zero, and no weight is computed (no
\* logarithm taken) for a term the document lacks.
C13_EmptyInputsAreWellFormed ==
    /\ op = "fit" => ret.kind # "threw"
    /\ (op = "transform" /\ DOMAIN v.vocabulary # {}) =>
          /\ ret.kind = "matrix"
          /\ Len(ret.val) = Len(arg)
          /\ \A d \in DOMAIN arg :
                /\ Len(ret.val[d].vals) = Cardinality(DOMAIN v.vocabulary)
                /\ \A t \in DOMAIN v.vocabulary :
                      ret.val[d].vals[v.vocabulary[t] + 1] # 0
                          <=> t \in Range(Tokenize(v, arg[d]))
                /\ arg[d] = <<>> => AllZero(ret.val[d].vals)

\* transform of the one-document list holding the empty string returned one
\* all-zero vector of three entries
C13_Witness ==
    /\ op = "transform"
    /\ arg = << <<>> >>
    /\ ret.kind = "matrix"
    /\ Len(ret.val) = 1
    /\ Len(ret.val[1].vals) = 3
    /\ AllZero(ret.val[1].vals)

-----------------------------------------------------------------------------
(* evaluation::Metrics (src/lib/src/evaluation/metrics.cpp)                *)
(*                                                                         *)
(* A double that is a ratio of counts is kept exact, as the record         *)
(* [num, den] with den > 0. The functions are static: the call's arguments *)
(* are in arg, its result in ret.                                          *)

\* longest label list given to confusionMatrix and calculateMetrics
MaxLabels == 3

\* label values: 0 is the negative class, every other value the positive
Labels == {0, 1, 4}

LabelsUpTo(n) == UNION {[1..k -> Labels] : k \in 0..n}

Ratio(num, den) == [num |-> num, den |-> den]

Zero == Ratio(0, 1)

RatEq(a, b) == a.num * b.den = b.num * a.den

RatLe(a, b) == a.num * b.den <= b.num * a.den

RatLt(a, b) == a.num * b.den < b.num * a.den

\* (a + b) / 2.0
RatMean(a, b) == Ratio(a.num * b.den + b.num * a.den, 2 * a.den * b.den)

\* int actual = (yTrue[i] == 0) ? 0 : 1
ClassOf(label) == IF label = 0 THEN 0 ELSE 1

\* for (i = 0; i < yTrue.size() && i < yPred.size(); ++i)
\*     matrix[actual][predicted]++
RECURSIVE CountPairs(_, _, _, _)
CountPairs(yTrue, yPred, i, matrix) ==
    IF i > Len(yTrue) \/ i > Len(yPred) THEN matrix
    ELSE LET actual    == ClassOf(yTrue[i])
             predicted == ClassOf(yPred[i])
         IN  CountPairs(yTrue, yPred, i + 1,
                 [matrix EXCEPT ![actual + 1][predicted + 1] = @ + 1])

\* ConfusionMatrix running over all of yTrue, a missing prediction taken as 0
ConfusionMatrixOverTrue(yTrue, yPred) ==
    CountPairs(yTrue, [i \in DOMAIN yTrue |-> IF i <= Len(yPred) THEN yPred[i] ELSE 0],
               1, <<<<0, 0>>, <<0, 0>>>>)

\* matrix[a][p] is at position [a + 1][p + 1]
ConfusionMatrix(yTrue, yPred) == CountPairs(yTrue, yPred, 1, <<<<0, 0>>, <<0, 0>>>>)

\* Precision reporting 1.0 when nothing was predicted
PrecisionOneWhenEmpty(tp, fp) == IF tp + fp > 0 THEN Ratio(tp, tp + fp) ELSE Ratio(1, 1)

Precision(tp, fp) == IF tp + fp > 0 THEN Ratio(tp, tp + fp) ELSE Zero

Recall(tp, fn) == IF tp + fn > 0 THEN Ratio(tp, tp + fn) ELSE Zero

\* 2.0 * (precision * recall) / (precision + recall)
F1Score(precision, recall) ==
    IF precision.num * recall.den + recall.num * precision.den > 0
    THEN Ratio(2 * precision.num * recall.num,
               precision.num * recall.den + recall.num * precision.den)
    ELSE Zero

CalculateMetrics(yTrue, yPred) ==
    LET matrix        == ConfusionMatrix(yTrue, yPred)
        tn            == matrix[1][1]
        fp            == matrix[1][2]
        fn            == matrix[2][1]
        tp            == matrix[2][2]
        precSafe      == Precision(tn, fn)
        precHarmful   == Precision(tp, fp)
        recallSafe    == Recall(tn, fp)
        recallHarmful == Recall(tp, fn)
        f1Safe        == F1Score(precSafe, recallSafe)
        f1Harmful     == F1Score(precHarmful, recallHarmful)
        totalSamples  == tn + fp + fn + tp
    IN  [ accuracy          |-> IF totalSamples > 0 THEN Ratio(tn + tp, totalSamples)
                                                    ELSE Zero,
          precision_safe    |-> precSafe,
          precision_harmful |-> precHarmful,
          recall_safe       |-> recallSafe,
          recall_harmful    |-> recallHarmful,
          f1_safe           |-> f1Safe,
          f1_harmful        |-> f1Harmful,
          macro_precision   |-> RatMean(precSafe, precHarmful),
          macro_recall      |-> RatMean(recallSafe, recallHarmful),
          macro_f1          |-> RatMean(f1Safe, f1Harmful),
          true_negatives    |-> Ratio(tn, 1),
          false_positives   |-> Ratio(fp, 1),
          false_negatives   |-> Ratio(fn, 1),
          true_positives    |-> Ratio(tp, 1) ]

\* the two label lists of one call, of any two lengths
InitLabels ==
    \E yTrue \in LabelsUpTo(MaxLabels), yPred \in LabelsUpTo(MaxLabels) :
        ConstructedFor(FreshVectorizer, [yTrue |-> yTrue, yPred |-> yPred])

ConfusionMatrixCall ==
    /\ op = "construct"
    /\ ret' = Returned("matrix", ConfusionMatrix(arg.yTrue, arg.yPred))
    /\ op' = "confusionMatrix"
    /\ UNCHANGED <<dataVars, analyzerVars, bucketOrder, v, w, file, saved, fitted, arg, ret2, ub>>

CalculateMetricsCall ==
    /\ op = "construct"
    /\ ret' = Returned("metrics", CalculateMetrics(arg.yTrue, arg.yPred))
    /\ op' = "calculateMetrics"
    /\ UNCHANGED <<dataVars, analyzerVars, bucketOrder, v, w, file, saved, fitted, arg, ret2, ub>>

NextLabels == ConfusionMatrixCall \/ CalculateMetricsCall

SpecLabels == InitLabels /\ [][NextLabels]_vars

\* the smaller of the two lengths
PairedLength == IF Len(arg.yTrue) <= Len(arg.yPred) THEN Len(arg.yTrue) ELSE Len(arg.yPred)

\* the paired positions with actual class a and predicted class p
PairsOf(a, p) ==
    {i \in 1..PairedLength : (arg.yTrue[i] # 0) = (a = 1) /\ (arg.yPred[i] # 0) = (p = 1)}

\* C14: cell [a][p] of confusionMatrix(yTrue, yPred) is the number of
\* positions below min(len(yTrue), len(yPred)) whose true label is of class
\* a and whose predicted label is of class p (0 is class 0, anything else
\* class 1); the four cells sum to that minimum, and are all 0 for it 0.
C14_ConfusionMatrixCountsPairs ==
    op = "confusionMatrix" =>
        /\ \A a \in {0, 1}, p \in {0, 1} :
              ret.val[a + 1][p + 1] = Cardinality(PairsOf(a, p))
        /\ ret.val[1][1] + ret.val[1][2] + ret.val[2][1] + ret.val[2][2] = PairedLength
        /\ PairedLength = 0 => ret.val = <<<<0, 0>>, <<0, 0>>>>

\* a matrix of lists of different lengths, with a label 4 counted as class 1
\* and every kind of pair among the counted ones
C14_Witness ==
    /\ op = "confusionMatrix"
    /\ Len(arg.yTrue) = 3
    /\ Len(arg.yPred) = 2
    /\ 4 \in Range(arg.yTrue)
    /\ ret.val[1][1] + ret.val[2][2] = 1
    /\ ret.val[1][2] + ret.val[2][1] = 1

\* a / b as calculateMetrics is to report it: 0.0 when b is 0
RatioOrZero(a, b) == IF b = 0 THEN Zero ELSE Ratio(a, b)

InUnitInterval(x) == x.den > 0 /\ RatLe(Zero, x) /\ RatLe(x, Ratio(1, 1))

\* C15: calculateMetrics reports accuracy, the precision, recall and F1 of
\* each class and their macro averages as the ratios of the confusion
\* matrix's cells (counted here from the label pairs), each within [0, 1],
\* and reports 0.0 for every ratio whose denominator is 0.
C15_MetricsFromCellsInUnitInterval ==
    op = "calculateMetrics" =>
        LET m  == ret.val
            tn == Cardinality(PairsOf(0, 0))
            fp == Cardinality(PairsOf(0, 1))
            fn == Cardinality(PairsOf(1, 0))
            tp == Cardinality(PairsOf(1, 1))
        IN  /\ RatEq(m.accuracy, RatioOrZero(tn + tp, tn + fp + fn + tp))
            /\ RatEq(m.precision_harmful, RatioOrZero(tp, tp + fp))
            /\ RatEq(m.precision_safe, RatioOrZero(tn, tn + fn))
            /\ RatEq(m.recall_harmful, RatioOrZero(tp, tp + fn))
            /\ RatEq(m.recall_safe, RatioOrZero(tn, tn + fp))
            /\ RatEq(m.f1_harmful, RatioOrZero(2 * tp, 2 * tp + fp + fn))
            /\ RatEq(m.f1_safe, RatioOrZero(2 * tn, 2 * tn + fn + fp))
            /\ RatEq(m.macro_precision, RatMean(m.precision_safe, m.precision_harmful))
            /\ RatEq(m.macro_recall, RatMean(m.recall_safe, m.recall_harmful))
            /\ RatEq(m.macro_f1, RatMean(m.f1_safe, m.f1_harmful))
            /\ \A k \in {"accuracy", "precision_safe", "precision_harmful",
                         "recall_safe", "recall_harmful", "f1_safe", "f1_harmful",
                         "macro_precision", "macro_recall", "macro_f1"} :
                  InUnitInterval(m[k])

\* metrics of a single-class input: every true label positive, one of
\* three predicted negative, so that the safe class has 0 / 0 ratios
C15_Witness ==
    /\ op = "calculateMetrics"
    /\ Len(arg.yTrue) = 3
    /\ Len(arg.yPred) = 3
    /\ 0 \notin Range(arg.yTrue)
    /\ Cardinality({i \in 1..3 : arg.yPred[i] = 0}) = 1
    /\ RatEq(ret.val.recall_safe, Zero)
    /\ RatEq(ret.val.f1_harmful, Ratio(4, 5))

-----------------------------------------------------------------------------
(* Metrics::areaUnderROC *)

\* longest label list and longest score list given to the score functions
MaxScored == 4

\* true labels of the score functions
ScoreLabels == {0, 1}

\* scores, on a scale of whole numbers
ScoreValues == {1, 2, 3}

\* std::sort with the comparator a.first > b.first: the positions of the
\* n pairs in an order of non-increasing score; which of two equal scores
\* comes first is left to the sort
DescendingOrders(scores, n) ==
    {f \in [1..n -> 1..n] :
        /\ \A i, j \in 1..n : i # j => f[i] # f[j]
        /\ \A i \in 1..(n - 1) : scores[f[i]] >= scores[f[i + 1]]}

\* number of pairs: i < scores.size() && i < yTrue.size()
NumPairs(yTrue, scores) == IF Len(yTrue) <= Len(scores) THEN Len(yTrue) ELSE Len(scores)

\* for (int label : yTrue): counted over all of yTrue
PositiveCount(yTrue) == Cardinality({i \in DOMAIN yTrue : yTrue[i] # 0})

NegativeCount(yTrue) == Cardinality({i \in DOMAIN yTrue : yTrue[i] = 0})

\* The loop over the sorted pairs. tpPrev and fpPrev are counts, tpRate and
\* fpRate are rates; the sum is kept as a numerator over 2 * P * N:
\*   (fpRate - fpPrev) * (tpRate + tpPrev) / 2
\*     = (fpNum - fpPrev * N) * (tpNum + tpPrev * P) / (2 * P * N)
\* with fpRate = fpNum / N and tpRate = tpNum / P.
RECURSIVE TrapezoidSum(_, _, _, _, _, _, _)
TrapezoidSum(labels, k, tpPrev, fpPrev, P, N, auc) ==
    IF k > Len(labels) THEN auc
    ELSE LET positive == labels[k] # 0
             tpNum    == IF positive THEN tpPrev + 1 ELSE tpPrev
             fpNum    == IF positive THEN fpPrev ELSE fpPrev + 1
             area     == (fpNum - fpPrev * N) * (tpNum + tpPrev * P)
         IN  TrapezoidSum(labels, k + 1,
                          IF positive THEN tpPrev + 1 ELSE tpPrev,
                          IF positive THEN fpPrev ELSE fpPrev + 1,
                          P, N, auc + area)

\* AreaUnderROC returning 0.5 only for an empty list of pairs
AreaUnderROCEmptyOnly(yTrue, scores, order) ==
    LET P == PositiveCount(yTrue)
        N == NegativeCount(yTrue)
        labels == [k \in DOMAIN order |-> yTrue[order[k]]]
    IN  IF P = 0 /\ N = 0 THEN Ratio(1, 2)
        ELSE IF P = 0 \/ N = 0 THEN Zero
        ELSE Ratio(TrapezoidSum(labels, 1, 0, 0, P, N, 0), 2 * P * N)

\* order: the order std::sort left the pairs in
AreaUnderROC(yTrue, scores, order) ==
    LET P == PositiveCount(yTrue)
        N == NegativeCount(yTrue)
        labels == [k \in DOMAIN order |-> yTrue[order[k]]]
    IN  IF P = 0 \/ N = 0 THEN Ratio(1, 2)
        ELSE Ratio(TrapezoidSum(labels, 1, 0, 0, P, N, 0), 2 * P * N)

(* Metrics::precisionRecallCurve *)

\* std::numeric_limits<double>::infinity(): the score before the first one
Infinity == 1000

\* precisions[i], recalls[i] at one threshold: tp and fp count the pairs
\* the sweep has passed
CurvePoint(tp, fp, positiveCount) ==
    [precision |-> IF tp > 0 THEN Ratio(tp, tp + fp) ELSE Ratio(1, 1),
     recall    |-> Ratio(tp, positiveCount)]

\* the loop over the sorted pairs: a point wherever the score changes, and
\* the final point after the last pair
RECURSIVE CurveSweep(_, _, _, _, _, _, _)
CurveSweep(labels, sorted, k, tp, fp, prevScore, positiveCount) ==
    IF k > Len(labels) THEN <<CurvePoint(tp, fp, positiveCount)>>
    ELSE LET here == IF sorted[k] # prevScore
                     THEN <<CurvePoint(tp, fp, positiveCount)>> ELSE <<>>
         IN  here \o CurveSweep(labels, sorted, k + 1,
                                IF labels[k] # 0 THEN tp + 1 ELSE tp,
                                IF labels[k] # 0 THEN fp ELSE fp + 1,
                                sorted[k], positiveCount)

\* std::max on doubles
RatMax(a, b) == IF RatLt(a, b) THEN b ELSE a

\* MaxPrecisionFrom taking the first point that reaches the recall
RECURSIVE PrecisionOfFirstFrom(_, _, _, _)
PrecisionOfFirstFrom(points, i, targetRecall, maxPrecision) ==
    IF i > Len(points) THEN maxPrecision
    ELSE IF RatLe(targetRecall, points[i].recall) THEN points[i].precision
    ELSE PrecisionOfFirstFrom(points, i + 1, targetRecall, maxPrecision)

\* for (i = 0; i < recalls.size(); ++i)
\*     if (recalls[i] >= targetRecall) maxPrecision = max(maxPrecision, precisions[i])
RECURSIVE MaxPrecisionFrom(_, _, _, _)
MaxPrecisionFrom(points, i, targetRecall, maxPrecision) ==
    IF i > Len(points) THEN maxPrecision
    ELSE MaxPrecisionFrom(points, i + 1, targetRecall,
             IF RatLe(targetRecall, points[i].recall)
             THEN RatMax(maxPrecision, points[i].precision)
             ELSE maxPrecision)

\* the returned map: a function on the recall levels asked for (empty when
\* there is no positive label)
PrecisionRecallCurve(yTrue, scores, recallLevels, order) ==
    LET positiveCount == PositiveCount(yTrue)
        labels == [k \in DOMAIN order |-> yTrue[order[k]]]
        sorted == [k \in DOMAIN order |-> scores[order[k]]]
        points == CurveSweep(labels, sorted, 1, 0, 0, Infinity, positiveCount)
    IN  IF positiveCount = 0 THEN <<>>
        ELSE [targetRecall \in Range(recallLevels) |->
                 MaxPrecisionFrom(points, 1, targetRecall, Zero)]

(* Metrics::findOptimalThreshold *)

\* the metric arguments tried: the four names and one the code does not know
MetricNames == {"f1", "accuracy", "precision", "recall", "auc"}

\* double bestScore = -1.0
WorstScore == Ratio(-1, 1)

\* metricValue at one threshold, from the counters of the sweep
MetricValue(metric, tp, fp, tn, fn) ==
    CASE metric = "accuracy"  -> Ratio(tp + tn, tp + tn + fp + fn)
      [] metric = "precision" -> Precision(tp, fp)
      [] metric = "recall"    -> Recall(tp, fn)
      [] OTHER                -> F1Score(Precision(tp, fp), Recall(tp, fn))

\* Improves accepting a threshold that only equals the best so far
ImprovesOrTies(metricValue, bestScore) == RatLe(bestScore, metricValue)

\* if (metricValue > bestScore)
Improves(metricValue, bestScore) == RatLt(bestScore, metricValue)

\* the loop over the sorted pairs: wherever the score changes the metric
\* is evaluated on the pairs passed so far and the best threshold kept;
\* then the pair moves from the negative predictions to the positive ones
RECURSIVE ThresholdSweep(_, _, _, _, _, _, _, _, _, _, _)
ThresholdSweep(metric, labels, sorted, k, tp, fp, tn, fn, prevScore, bestThreshold, bestScore) ==
    IF k > Len(labels) THEN bestThreshold
    ELSE LET evaluate    == sorted[k] # prevScore
             metricValue == MetricValue(metric, tp, fp, tn, fn)
             better      == evaluate /\ Improves(metricValue, bestScore)
             positive    == labels[k] # 0
         IN  ThresholdSweep(metric, labels, sorted, k + 1,
                            IF positive THEN tp + 1 ELSE tp,
                            IF positive THEN fp ELSE fp + 1,
                            IF positive THEN tn ELSE tn - 1,
                            IF positive THEN fn - 1 ELSE fn,
                            sorted[k],
                            IF better THEN sorted[k] ELSE bestThreshold,
                            IF better THEN metricValue ELSE bestScore)

\* tp, fp, tn, fn as each pass of the loop finds them, and as the last pass
\* leaves them
RECURSIVE SweepCounters(_, _, _, _, _, _)
SweepCounters(labels, k, tp, fp, tn, fn) ==
    <<[tp |-> tp, fp |-> fp, tn |-> tn, fn |-> fn]>> \o
    (IF k > Len(labels) THEN <<>>
     ELSE LET positive == labels[k] # 0
          IN  SweepCounters(labels, k + 1,
                            IF positive THEN tp + 1 ELSE tp,
                            IF positive THEN fp ELSE fp + 1,
                            IF positive THEN tn ELSE tn - 1,
                            IF positive THEN fn - 1 ELSE fn))

\* the counters of one call: tn and fn start at the counts over all of
\* yTrue, tp and fp at 0
ThresholdCounters(yTrue, order) ==
    SweepCounters([k \in DOMAIN order |-> yTrue[order[k]]], 1, 0, 0,
                  NegativeCount(yTrue), PositiveCount(yTrue))

\* bestThreshold starts at 0.0; tn and fn start at the counts over all of
\* yTrue
FindOptimalThreshold(yTrue, scores, metric, order) ==
    LET labels == [k \in DOMAIN order |-> yTrue[order[k]]]
        sorted == [k \in DOMAIN order |-> scores[order[k]]]
    IN  ThresholdSweep(metric, labels, sorted, 1, 0, 0,
                       NegativeCount(yTrue), PositiveCount(yTrue),
                       Infinity, 0, WorstScore)

\* the label list and the score list of one call, of any two lengths
InitScores ==
    \E yTrue \in UNION {[1..k -> ScoreLabels] : k \in 0..MaxScored},
       scores \in UNION {[1..k -> ScoreValues] : k \in 0..MaxScored} :
        ConstructedFor(FreshVectorizer, [yTrue |-> yTrue, scores |-> scores])

AreaUnderROCCall ==
    /\ op = "construct"
    /\ \E order \in DescendingOrders(arg.scores, NumPairs(arg.yTrue, arg.scores)) :
          ret' = Returned("double", AreaUnderROC(arg.yTrue, arg.scores, order))
    /\ op' = "areaUnderROC"
    /\ UNCHANGED <<dataVars, analyzerVars, bucketOrder, v, w, file, saved, fitted, arg, ret2, ub>>

\* the recallLevels arguments tried: none, one level, a level twice next to
\* one no recall reaches, and the levels 0 and 1
RecallLevelLists ==
    { <<>>,
      <<Ratio(1, 2)>>,
      <<Ratio(1, 4), Ratio(3, 2), Ratio(1, 4)>>,
      <<Zero, Ratio(1, 1)>> }

PrecisionRecallCurveCall ==
    /\ op = "construct"
    /\ \E recallLevels \in RecallLevelLists,
          order \in DescendingOrders(arg.scores, NumPairs(arg.yTrue, arg.scores)) :
          /\ ret' = Returned("map",
                        PrecisionRecallCurve(arg.yTrue, arg.scores, recallLevels, order))
          /\ arg' = [yTrue |-> arg.yTrue, scores |-> arg.scores,
                     recallLevels |-> recallLevels]
    /\ op' = "precisionRecallCurve"
    /\ UNCHANGED <<dataVars, analyzerVars, bucketOrder, v, w, file, saved, fitted, ret2, ub>>

FindOptimalThresholdCall ==
    /\ op = "construct"
    /\ \E metric \in MetricNames,
          order \in DescendingOrders(arg.scores, NumPairs(arg.yTrue, arg.scores)) :
          /\ ret' = Returned("double",
                        FindOptimalThreshold(arg.yTrue, arg.scores, metric, order))
          /\ arg' = [yTrue |-> arg.yTrue, scores |-> arg.scores, metric |-> metric]
    /\ op' = "findOptimalThreshold"
    /\ UNCHANGED <<dataVars, analyzerVars, bucketOrder, v, w, file, saved, fitted, ret2, ub>>

NextScores == AreaUnderROCCall \/ PrecisionRecallCurveCall \/ FindOptimalThresholdCall

SpecScores == InitScores /\ [][NextScores]_vars

\* positions of the positive and of the negative samples
Positives == {i \in DOMAIN arg.yTrue : arg.yTrue[i] # 0}
Negatives == {i \in DOMAIN arg.yTrue : arg.yTrue[i] = 0}

\* every sample has a score, and there is a sample of each class
BothClassesScored ==
    /\ Len(arg.yTrue) = Len(arg.scores)
    /\ Positives # {}
    /\ Negatives # {}

\* C16: with a positive and a negative sample at least, areaUnderROC is
\* exactly 1.0 when every positive score is above every negative score and
\* exactly 0.0 when every positive score is below every negative score.
C16_PerfectRankingGivesOneOrZero ==
    (op = "areaUnderROC" /\ BothClassesScored) =>
        /\ (\A i \in Positives, j \in Negatives : arg.scores[i] > arg.scores[j])
              => RatEq(ret.val, Ratio(1, 1))
        /\ (\A i \in Positives, j \in Negatives : arg.scores[i] < arg.scores[j])
              => RatEq(ret.val, Zero)

\* C17: areaUnderROC is exactly 0.5 when all labels are of one class (an
\* empty input too) and when each class has at most one sample (stated for
\* samples that all have a score).
C17_DegenerateGivesHalf ==
    (/\ op = "areaUnderROC"
     /\ Len(arg.yTrue) = Len(arg.scores)
     /\ \/ Positives = {}
        \/ Negatives = {}
        \/ Cardinality(Positives) <= 1 /\ Cardinality(Negatives) <= 1)
        => RatEq(ret.val, Ratio(1, 2))

\* C17 as amended: areaUnderROC is exactly 0.5, with no division made,
\* whenever all labels are of one class (an empty input and a single sample
\* too).
C17_OneClassGivesHalf ==
    (op = "areaUnderROC" /\ (Positives = {} \/ Negatives = {}))
        => ret.val = Ratio(1, 2)

\* three samples of one class, with scores, gave 0.5
C17_Witness ==
    /\ op = "areaUnderROC"
    /\ Len(arg.yTrue) = 3
    /\ Len(arg.scores) = 3
    /\ Negatives = {}
    /\ ret.val = Ratio(1, 2)

\* C18: the value areaUnderROC returns is within [0.0, 1.0] (stated for
\* label and score lists of one length).
C18_AucInUnitInterval ==
    (op = "areaUnderROC" /\ Len(arg.yTrue) = Len(arg.scores))
        => InUnitInterval(ret.val)

\* the paired positions: those that have a label and a score
Paired == 1..NumPairs(arg.yTrue, arg.scores)

\* What the descending sweep predicts positive, threshold by threshold: at
\* every distinct score the pairs scored above it, and at the end of the
\* sweep every pair.
SweepPredictions ==
    {{i \in Paired : arg.scores[i] > arg.scores[j]} : j \in Paired} \cup {Paired}

TruePositivesOf(predicted) == Cardinality(predicted \cap Positives)

\* precision of a prediction; 1.0 where nothing is predicted positive
PrecisionOf(predicted) ==
    IF predicted = {} THEN Ratio(1, 1)
    ELSE Ratio(TruePositivesOf(predicted), Cardinality(predicted))

\* recall of a prediction, of all the positive labels
RecallOf(predicted) == Ratio(TruePositivesOf(predicted), Cardinality(Positives))

\* the sweep's predictions whose recall is at least the level
Reaching(level) == {predicted \in SweepPredictions : RatLe(level, RecallOf(predicted))}

PredictedAbove(t) == {i \in DOMAIN arg.scores : arg.scores[i] > t}

\* the metric of a candidate threshold, from the four sets of samples
MetricOfCandidate(metric, t) ==
    LET tp == Cardinality(PredictedAbove(t) \cap Positives)
        fp == Cardinality(PredictedAbove(t) \cap Negatives)
        fn == Cardinality(Positives \ PredictedAbove(t))
        tn == Cardinality(Negatives \ PredictedAbove(t))
    IN  CASE metric = "accuracy"  -> Ratio(tp + tn, Len(arg.yTrue))
          [] metric = "precision" -> RatioOrZero(tp, tp + fp)
          [] metric = "recall"    -> RatioOrZero(tp, tp + fn)
          [] metric = "f1"        -> RatioOrZero(2 * tp, 2 * tp + fp + fn)

\* C20: for label and score lists of one length, not empty, and a metric
\* among f1, accuracy, precision and recall, findOptimalThreshold returns
\* one of the scores; no other score taken as the threshold (predicting
\* positive the samples scored above it) has a greater metric, and every
\* higher score has a smaller one.
C20_ThresholdMaximisesMetric ==
    (/\ op = "findOptimalThreshold"
     /\ Len(arg.yTrue) = Len(arg.scores)
     /\ Len(arg.yTrue) > 0
     /\ arg.metric \in {"f1", "accuracy", "precision", "recall"})
    => /\ ret.val \in Range(arg.scores)
       /\ \A t \in Range(arg.scores) :
             /\ RatLe(MetricOfCandidate(arg.metric, t),
                      MetricOfCandidate(arg.metric, ret.val))
             /\ t > ret.val => RatLt(MetricOfCandidate(arg.metric, t),
                                     MetricOfCandidate(arg.metric, ret.val))

\* an F1 search in which the lowest score wins over higher ones, and a
\* score between them ties with another candidate
C20_Witness ==
    /\ op = "findOptimalThreshold"
    /\ arg.metric = "f1"
    /\ Len(arg.yTrue) = Len(arg.scores)
    /\ Cardinality(Range(arg.scores)) = 3
    /\ \A t \in Range(arg.scores) : ret.val <= t
    /\ \E t, u \in Range(arg.scores) :
          /\ t # u
          /\ RatEq(MetricOfCandidate("f1", t), MetricOfCandidate("f1", u))

-----------------------------------------------------------------------------
(* Dataset::splitTrainTest *)

\* most samples in a dataset
MaxSamples == 4

\* the labels of the samples: 0 and 4, as in the sentiment data
SampleLabels == {0, 4}

\* the testSize arguments tried: the fractions 0.2, 0.25 and 0.5 and the
\* absolute counts 1, 2 and 3
TestSizes == {Ratio(1, 5), Ratio(1, 4), Ratio(1, 2), Ratio(1, 1), Ratio(2, 1), Ratio(3, 1)}

\* std::shuffle: the orders a sequence of positions can be left in
Shuffles(n) == {p \in [1..n -> 1..n] : \A i, j \in 1..n : p[i] = p[j] => i = j}

\* testCount before and after "Ensure valid test count"
TestCount(testSize, datasetSize) ==
    LET asked == IF testSize.num < testSize.den
                 THEN TruncDiv(testSize.num * datasetSize, testSize.den)
                 ELSE TruncDiv(testSize.num, testSize.den)
        atMost == IF asked < datasetSize - 1 THEN asked ELSE datasetSize - 1
    IN  Max(1, atMost)

\* labelTestCount: the label's share of testCount, at least 1, at most all
\* but one of the label's samples
LabelTestCount(testCount, count, datasetSize) ==
    LET share   == TruncDiv(testCount * count, datasetSize)
        atLeast == IF share = 0 /\ count > 0 THEN 1 ELSE share
    IN  IF atLeast < count - 1 THEN atLeast ELSE count - 1

\* the labels in the order the distribution map is iterated: here the
\* order in which the shuffle brings them up
RECURSIVE LabelsInOrder(_, _, _)
LabelsInOrder(data, shuffled, seen) ==
    IF shuffled = <<>> THEN <<>>
    ELSE LET label == data[Head(shuffled)][1]
         IN  IF label \in seen THEN LabelsInOrder(data, Tail(shuffled), seen)
             ELSE <<label>> \o LabelsInOrder(data, Tail(shuffled), seen \cup {label})

\* the stratified branch: each label's shuffled indices, the first
\* labelTestCount of them to the test set and the others to the training set
StratifiedSplit(data, testCount, shuffled) ==
    LET labels == LabelsInOrder(data, shuffled, {})
        IndicesOf(label) == SelectSeq(shuffled, LAMBDA i : data[i][1] = label)
        CountOf(label) == LabelTestCount(testCount, Len(IndicesOf(label)), Len(data))
    IN  [testIndices  |-> Flatten([k \in DOMAIN labels |->
                              SubSeq(IndicesOf(labels[k]), 1, CountOf(labels[k]))]),
         trainIndices |-> Flatten([k \in DOMAIN labels |->
                              SubSeq(IndicesOf(labels[k]), CountOf(labels[k]) + 1,
                                     Len(IndicesOf(labels[k])))])]

\* the simple branch: the first testCount shuffled indices are the test set
SimpleSplit(data, testCount, shuffled) ==
    [testIndices  |-> SubSeq(shuffled, 1, testCount),
     trainIndices |-> SubSeq(shuffled, testCount + 1, Len(shuffled))]

\* the dataset after splitTrainTest (positions count from 1 here)
SplitTrainTest(self, testSize, stratify, shuffled) ==
    LET testCount == TestCount(testSize, Len(self.data))
        split == IF stratify THEN StratifiedSplit(self.data, testCount, shuffled)
                 ELSE SimpleSplit(self.data, testCount, shuffled)
    IN  [self EXCEPT !.trainIndices = split.trainIndices,
                     !.testIndices = split.testIndices]

\* a Dataset holding the samples, not yet split
DatasetOf(data) == [data |-> data, trainIndices |-> <<>>, testIndices |-> <<>>]

\* the sample texts play no part in the split
SamplesUpTo(n) == UNION {[1..k -> {<<label, <<"b">>>> : label \in SampleLabels}] : k \in 0..n}

InitSplit ==
    /\ bucketOrder = "ascending"
    /\ v = FreshVectorizer
    /\ w = FreshVectorizer
    /\ file = Missing
    /\ saved = FreshVectorizer
    /\ fitted = <<>>
    /\ op = "construct"
    /\ arg = <<>>
    /\ ret = NoRet
    /\ ret2 = NoRet
    /\ ub = FALSE
    /\ \E data \in SamplesUpTo(MaxSamples) : dataset = DatasetOf(data)
    /\ config_ = Absent
    /\ vectorizer_ = Absent
    /\ model_ = Absent
    /\ disk = Absent
    /\ succeeded = FALSE

\* splitTrainTest(testSize, stratify, randomSeed); an empty dataset throws
\* before anything is changed
SplitTrainTestCall ==
    /\ \E testSize \in TestSizes, stratify \in BOOLEAN :
          /\ arg' = [testSize |-> testSize, stratify |-> stratify]
          /\ IF dataset.data = <<>>
             THEN /\ ret' = Threw("Dataset is empty. Cannot split.")
                  /\ UNCHANGED dataset
             ELSE \E shuffled \in Shuffles(Len(dataset.data)) :
                  /\ dataset' = SplitTrainTest(dataset, testSize, stratify, shuffled)
                  /\ ret' = Returned("void", <<>>)
    /\ op' = "splitTrainTest"
    /\ UNCHANGED <<analyzerVars, bucketOrder, v, w, file, saved, fitted, ret2, ub>>

SpecSplit == InitSplit /\ [][SplitTrainTestCall]_vars

\* C23: after splitTrainTest on a dataset of at least two samples,
\* stratified or not, the training and the test indices are disjoint, hold
\* every sample exactly once between them, and neither set is empty.
C23_SplitIsPartitionBothNonEmpty ==
    (op = "splitTrainTest" /\ Len(dataset.data) >= 2) =>
        /\ Range(dataset.trainIndices) \cap Range(dataset.testIndices) = {}
        /\ Range(dataset.trainIndices) \cup Range(dataset.testIndices) = DOMAIN dataset.data
        /\ Len(dataset.trainIndices) + Len(dataset.testIndices) = Len(dataset.data)
        /\ dataset.trainIndices # <<>>
        /\ dataset.testIndices # <<>>

\* C24: splitTrainTest with an absolute test count k, 1 <= k < dataset
\* size, and the default stratification leaves exactly k test samples and
\* dataset size - k training samples.
C24_AbsoluteCountIsExact ==
    (/\ op = "splitTrainTest"
     /\ arg.stratify
     /\ arg.testSize.den = 1
     /\ arg.testSize.num < Len(dataset.data))
    => /\ Len(dataset.testIndices) = arg.testSize.num
       /\ Len(dataset.trainIndices) = Len(dataset.data) - arg.testSize.num

-----------------------------------------------------------------------------
(* TextProcessor::preprocess, on texts of the letters a and b and spaces *)

\* the stop words that can be written with the letters a and b
Stopwords == {<<"a">>}

\* words joined by single spaces
RECURSIVE JoinWithSpaces(_)
JoinWithSpaces(ws) ==
    IF ws = <<>> THEN <<>>
    ELSE IF Len(ws) = 1 THEN ws[1]
    ELSE ws[1] \o <<" ">> \o JoinWithSpaces(Tail(ws))

\* removeStopwords: the words that are no stop words, single-spaced
RemoveStopwords(text) ==
    JoinWithSpaces(SelectSeq(SplitWords(text), LAMBDA word : word \notin Stopwords))

\* normalizeRepeatedChars: a character equal to the one before it is kept
\* only if the last two characters kept so far differ
RECURSIVE RepeatedCharsFrom(_, _, _)
RepeatedCharsFrom(text, i, result) ==
    IF i > Len(text) THEN result
    ELSE LET keep == \/ text[i] # text[i - 1]
                     \/ /\ Len(result) >= 2
                        /\ result[Len(result)] # result[Len(result) - 1]
         IN  RepeatedCharsFrom(text, i + 1,
                               IF keep THEN Append(result, text[i]) ELSE result)

NormalizeRepeatedChars(text) ==
    IF text = <<>> THEN <<>> ELSE RepeatedCharsFrom(text, 2, <<text[1]>>)

\* The default pipeline. On these texts the steps for URLs, mentions,
\* hashtags, case, abbreviations, negations, punctuation and digits change
\* nothing but the spacing, which normalize_whitespace and remove_stopwords
\* settle: the words, single-spaced.
Preprocess(text) == NormalizeRepeatedChars(RemoveStopwords(text))

-----------------------------------------------------------------------------
(* models::SGDClassifier: a weight per feature and a bias *)

\* SGDClassifier(): no weights yet
UntrainedClassifier == [kind |-> "sgd", weights |-> <<>>, bias |-> 0]

\* the null model_ pointer
NoModel == [kind |-> "null"]

\* what fit can leave: each weight 1 and the bias 0, or each weight -1 and
\* the bias 1
TrainedClassifiers == {[weight |-> 1, bias |-> 0], [weight |-> -1, bias |-> 1]}

\* fit(features, labels): one weight per feature
ClassifierFit(numFeatures, trained) ==
    [kind |-> "sgd", weights |-> [i \in 1..numFeatures |-> trained.weight],
     bias |-> trained.bias]

\* w . x + b for the vector vals / sqrt(normSq): the score is
\* dot / sqrt(normSq) + bias
DecisionScore(model, x) ==
    [dot    |-> SumSeq([i \in DOMAIN x.vals |->
                    IF i <= Len(model.weights) THEN model.weights[i] * x.vals[i] ELSE 0]),
     normSq |-> x.normSq,
     bias   |-> model.bias]

\* decisionFunction: the score; with a weight vector of another length
\* than the features, a "not fitted" error or the score of the weights
\* there are
DecisionFunction(model, x) ==
    IF Len(model.weights) = Len(x.vals) THEN {Returned("score", DecisionScore(model, x))}
    ELSE {Threw("not fitted"), Returned("score", DecisionScore(model, x))}

\* load: the weights and the bias of the file; failure on a missing file
ClassifierLoad(self, path) ==
    IF path.exists THEN [ok |-> TRUE, self |-> path.data]
                   ELSE [ok |-> FALSE, self |-> self]

\* save: false and no file when the file cannot be opened
ClassifierSave(self, writable, old) ==
    IF writable THEN [ok |-> TRUE, file |-> FileOf(self)]
                ELSE [ok |-> FALSE, file |-> old]

-----------------------------------------------------------------------------
(* AnalyzerImpl::analyze *)

\* the score 0.0
ZeroScore == [dot |-> 0, normSq |-> 1, bias |-> 0]

\* score >= 0.0
ScoreAtLeastZero(score) ==
    LET d == score.dot
        b == score.bias
        n == score.normSq
    IN  CASE d >= 0 /\ b >= 0 -> TRUE
          [] d <= 0 /\ b <= 0 -> d = 0 /\ b = 0
          [] d > 0 /\ b < 0   -> d * d >= b * b * n
          [] OTHER            -> b * b * n >= d * d

\* score > 0.0, for score = dot / sqrt(normSq) + bias with normSq > 0
ScorePositive(score) ==
    LET d == score.dot
        b == score.bias
        n == score.normSq
    IN  CASE d >= 0 /\ b >= 0 -> d > 0 \/ b > 0
          [] d <= 0 /\ b <= 0 -> FALSE
          [] d > 0 /\ b < 0   -> d * d > b * b * n
          [] OTHER            -> b * b * n > d * d

\* the AnalysisResult: confidence is the sigmoid of the score; the key
\* terms and the explanation are computed from the three fields before
\* them and are left out
AnalysisResult(text, cleanedText, sentiment, harmScore, confidence) ==
    [text |-> text, cleanedText |-> cleanedText, sentiment |-> sentiment,
     harmScore |-> harmScore, confidence |-> confidence]

\* the outcomes of analyze(text): an exception or a result
Analyze(vectorizer, model, text) ==
    IF model = NoModel THEN {Threw("No model loaded. Call loadModel() first.")}
    ELSE
    LET cleanedText == Preprocess(text)
        features == Transform(vectorizer, <<cleanedText>>)
    IN  IF features.kind = "threw" THEN {features}
        ELSE IF features.val = <<>> \/ features.val[1].vals = <<>>
        THEN {Returned("result",
                 AnalysisResult(text, cleanedText, "Safe", ZeroScore, Ratio(1, 2)))}
        ELSE {IF scores.kind = "threw" THEN scores
              ELSE Returned("result",
                      AnalysisResult(text, cleanedText,
                          IF ScorePositive(scores.val) THEN "Harmful" ELSE "Safe",
                          scores.val, [sigmoid |-> scores.val])) :
                 scores \in DecisionFunction(model, features.val[1])}

-----------------------------------------------------------------------------
(* Config and the model directories *)

\* loadDefaults: the values the analyzer reads, and one it does not
DefaultConfig ==
    [useSublinearTf |-> TRUE,
     maxDf          |-> DefaultMaxDf,
     maxFeatures    |-> DefaultMaxFeatures,
     minNgram       |-> DefaultMinNgram,
     maxNgram       |-> DefaultMaxNgram,
     modelDir       |-> "../models/default",
     threshold      |-> "0.5"]

\* the configuration files: none at the path, one without settings, one
\* naming a model directory
ConfigFiles ==
    { Missing,
      FileOf(<<>>),
      FileOf(<<[key |-> "modelDir", value |-> "out"]>>) }

\* configValues[key] = value
ConfigSet(config, key, value) == [config EXCEPT ![key] = value]

\* loadFromFile: false if the file cannot be opened; else each line's
\* value replaces the one held
RECURSIVE ConfigLines(_, _)
ConfigLines(config, lines) ==
    IF lines = <<>> THEN config
    ELSE ConfigLines(ConfigSet(config, Head(lines).key, Head(lines).value), Tail(lines))

ConfigLoadFromFile(config, path) ==
    IF path.exists THEN [ok |-> TRUE, config |-> ConfigLines(config, path.data)]
                   ELSE [ok |-> FALSE, config |-> config]

\* the directories that can hold a model
ModelDirs == {"../models/default", "out"}

EmptyDir == [model |-> Missing, vectorizer |-> Missing]

\* modelPath + "/model.bin" and modelPath + "/vectorizer.bin"
ModelBin(files, modelPath) ==
    IF modelPath \in DOMAIN files THEN files[modelPath].model ELSE Missing

VectorizerBin(files, modelPath) ==
    IF modelPath \in DOMAIN files THEN files[modelPath].vectorizer ELSE Missing

-----------------------------------------------------------------------------
(* AnalyzerImpl::loadModel, applyConfig *)

\* model_ is replaced by a new classifier before anything is read; the
\* vectorizer is read only after the classifier was
LoadModel(vectorizer, model, files, modelPath) ==
    LET modelLoaded == ClassifierLoad(UntrainedClassifier, ModelBin(files, modelPath))
        vectorizerLoaded == Load(vectorizer, VectorizerBin(files, modelPath), 0)
    IN  IF ~modelLoaded.ok
        THEN [ok |-> FALSE, model |-> modelLoaded.self, vectorizer |-> vectorizer]
        ELSE IF ~vectorizerLoaded.ok
        THEN [ok |-> FALSE, model |-> modelLoaded.self, vectorizer |-> vectorizerLoaded.self]
        ELSE [ok |-> TRUE, model |-> modelLoaded.self, vectorizer |-> vectorizerLoaded.self]

\* a new vectorizer from the settings, then loadModel(model-dir) unless
\* model-dir is empty; ok tells whether that loadModel returned true
ApplyConfig(config, vectorizer, model, files) ==
    LET fresh == TfidfVectorizer(config.useSublinearTf, config.maxDf,
                                 config.maxFeatures, config.minNgram, config.maxNgram)
    IN  IF config.modelDir # ""
        THEN LoadModel(fresh, model, files, config.modelDir)
        ELSE [ok |-> FALSE, model |-> model, vectorizer |-> fresh]

-----------------------------------------------------------------------------
(* AnalyzerImpl::trainModel *)

\* the data files: none at the path, one with a header and no rows, one of
\* a single labelled text and one of three
TrainingFiles ==
    { Missing,
      FileOf(<<>>),
      FileOf(<< <<0, <<"b">>>> >>),
      FileOf(<< <<0, <<"b">>>>, <<4, <<"a", "b">>>>, <<0, <<"b", " ", "a">>>> >>) }

\* dataset.loadFromFile: false when the file is missing or has no rows
DatasetLoadFromFile(path) ==
    [ok |-> path.exists /\ path.data # <<>>, data |-> path.data]

\* dataset.splitTrainTest(0.2)
TrainTestSize == Ratio(1, 5)

\* the texts at the indices, preprocessed
CleanedTexts(data, indices) == [k \in DOMAIN indices |-> Preprocess(data[indices[k]][2])]

\* The analyzer after trainModel(dataPath, outputPath) and what the call
\* returned. shuffled is the order std::shuffle leaves, trained gives the
\* weights the training ends with, and
\* the two flags tell whether model.bin and vectorizer.bin can be written.
TrainModel(vectorizer, model, files, path, outputPath, shuffled, trained, modelWritable, vectorizerWritable) ==
    LET unchanged == [vectorizer |-> vectorizer, model |-> model, files |-> files]
        loaded  == DatasetLoadFromFile(path)
        split   == SplitTrainTest(DatasetOf(loaded.data), TrainTestSize, TRUE, shuffled)
        cleaned == CleanedTexts(loaded.data, split.trainIndices)
        fittedV == Fit(vectorizer, cleaned, DefaultMaxDf, DefaultMaxFeatures)
        features == Transform(fittedV, cleaned)
        newModel == ClassifierFit(Cardinality(DOMAIN fittedV.vocabulary), trained)
        old      == IF outputPath \in DOMAIN files THEN files[outputPath] ELSE EmptyDir
        modelSaved == ClassifierSave(newModel, modelWritable, old.model)
        vectorizerSaved == Save(fittedV, vectorizerWritable, old.vectorizer)
        after    == [vectorizer |-> fittedV, model |-> newModel, files |-> files]
    IN  IF ~loaded.ok THEN [ret |-> Returned("bool", FALSE)] @@ unchanged
        ELSE IF features.kind = "threw"
        THEN [ret |-> features] @@ [unchanged EXCEPT !.vectorizer = fittedV]
        ELSE IF outputPath = "" THEN [ret |-> Returned("bool", TRUE)] @@ after
        ELSE IF ~modelSaved.ok THEN [ret |-> Returned("bool", FALSE)] @@ after
        ELSE IF ~vectorizerSaved.ok
        THEN [ret |-> Returned("bool", FALSE)] @@
             [after EXCEPT !.files[outputPath].model = modelSaved.file]
        ELSE [ret |-> Returned("bool", TRUE)] @@
             [after EXCEPT !.files[outputPath] =
                 [model |-> modelSaved.file, vectorizer |-> vectorizerSaved.file]]

-----------------------------------------------------------------------------
(* The analyzer: construction, then any calls in any order *)

\* the texts handed to analyze: "", "b", "ab", "b a" and "bb"
AnalyzeTexts == {<<>>, <<"b">>, <<"a", "b">>, <<"b", " ", "a">>, <<"b", "b">>}

\* Analyzer() leaves model_ null and applies no configuration;
\* Analyzer(configPath) loads the defaults, then the file if it can be
\* opened, and applies the configuration
InitAnalyzer ==
    /\ bucketOrder = "ascending"
    /\ v = FreshVectorizer
    /\ w = FreshVectorizer
    /\ file = Missing
    /\ saved = FreshVectorizer
    /\ fitted = <<>>
    /\ op = "construct"
    /\ ret = NoRet
    /\ ret2 = NoRet
    /\ ub = FALSE
    /\ dataset = Absent
    /\ disk = [dir \in ModelDirs |-> EmptyDir]
    /\ \/ /\ arg = [configPath |-> "none"]
          /\ config_ = DefaultConfig
          /\ vectorizer_ = FreshVectorizer
          /\ model_ = NoModel
          /\ succeeded = FALSE
       \/ \E path \in ConfigFiles :
             LET config  == ConfigLoadFromFile(DefaultConfig, path).config
                 applied == ApplyConfig(config, FreshVectorizer, NoModel, disk)
             IN  /\ arg = [configPath |-> path]
                 /\ config_ = config
                 /\ vectorizer_ = applied.vectorizer
                 /\ model_ = applied.model
                 /\ succeeded = applied.ok

AnalyzeCall ==
    /\ \E text \in AnalyzeTexts :
          /\ arg' = [text |-> text]
          /\ ret' \in Analyze(vectorizer_, model_, text)
    /\ op' = "analyze"
    /\ UNCHANGED <<dataVars, analyzerVars, bucketOrder, v, w, file, saved, fitted, ret2, ub>>

\* analyzeMultiple: analyze of each text in turn; an exception ends the call
RECURSIVE AnalyzeMultiple(_, _, _)
AnalyzeMultiple(vectorizer, model, texts) ==
    IF texts = <<>> THEN {Returned("results", <<>>)}
    ELSE {IF first.kind = "threw" THEN first
          ELSE IF rest.kind = "threw" THEN rest
          ELSE Returned("results", <<first.val>> \o rest.val) :
             first \in Analyze(vectorizer, model, Head(texts)),
             rest \in AnalyzeMultiple(vectorizer, model, Tail(texts))}

\* the batches tried: none, one and two of the texts "b" and "ab"
BatchTexts == ListsUpTo({<<"b">>, <<"a", "b">>}, 2)

AnalyzeMultipleCall ==
    /\ \E texts \in BatchTexts :
          /\ arg' = [texts |-> texts]
          /\ ret' \in AnalyzeMultiple(vectorizer_, model_, texts)
    /\ op' = "analyzeMultiple"
    /\ UNCHANGED <<dataVars, analyzerVars, bucketOrder, v, w, file, saved, fitted, ret2, ub>>

LoadModelCall ==
    /\ \E modelPath \in ModelDirs \cup {"non_existent_directory"} :
          \E r \in {LoadModel(vectorizer_, model_, disk, modelPath)} :
              /\ arg' = [modelPath |-> modelPath]
              /\ vectorizer_' = r.vectorizer
              /\ model_' = r.model
              /\ ret' = Returned("bool", r.ok)
              /\ succeeded' = (succeeded \/ r.ok)
    /\ op' = "loadModel"
    /\ UNCHANGED <<dataVars, config_, disk, bucketOrder, v, w, file, saved, fitted, ret2, ub>>

\* the ways the output can go: no output path; the directory "out" with
\* both files written, with model.bin not writable, with vectorizer.bin
\* not writable
TrainOutputs ==
    { [outputPath |-> "",    modelWritable |-> TRUE,  vectorizerWritable |-> TRUE],
      [outputPath |-> "out", modelWritable |-> TRUE,  vectorizerWritable |-> TRUE],
      [outputPath |-> "out", modelWritable |-> FALSE, vectorizerWritable |-> TRUE],
      [outputPath |-> "out", modelWritable |-> TRUE,  vectorizerWritable |-> FALSE] }

TrainModelCall ==
    /\ \E path \in TrainingFiles, out \in TrainOutputs :
          \E shuffled \in Shuffles(Len(path.data)), trained \in TrainedClassifiers :
          \E r \in {TrainModel(vectorizer_, model_, disk, path, out.outputPath, shuffled,
                              trained, out.modelWritable, out.vectorizerWritable)} :
              /\ arg' = [dataPath |-> path] @@ out
              /\ vectorizer_' = r.vectorizer
              /\ model_' = r.model
              /\ disk' = r.files
              /\ ret' = r.ret
              /\ succeeded' = (succeeded \/ r.ret = Returned("bool", TRUE))
    /\ op' = "trainModel"
    /\ UNCHANGED <<dataVars, config_, bucketOrder, v, w, file, saved, fitted, ret2, ub>>

\* setConfig(key, value): the value is set and the configuration applied
SetConfigCall ==
    /\ \E setting \in {<<"threshold", "0.7">>, <<"modelDir", "out">>} :
          \E applied \in {ApplyConfig(ConfigSet(config_, setting[1], setting[2]),
                                      vectorizer_, model_, disk)} :
              /\ arg' = [key |-> setting[1], value |-> setting[2]]
              /\ config_' = ConfigSet(config_, setting[1], setting[2])
              /\ vectorizer_' = applied.vectorizer
              /\ model_' = applied.model
              /\ succeeded' = (succeeded \/ applied.ok)
    /\ ret' = Returned("void", <<>>)
    /\ op' = "setConfig"
    /\ UNCHANGED <<dataVars, disk, bucketOrder, v, w, file, saved, fitted, ret2, ub>>

\* loadConfig(configPath): the configuration is applied only if the file
\* could be opened
LoadConfigCall ==
    /\ \E path \in ConfigFiles :
          \E loaded \in {ConfigLoadFromFile(config_, path)} :
          \E applied \in {IF loaded.ok
                          THEN ApplyConfig(loaded.config, vectorizer_, model_, disk)
                          ELSE [ok |-> FALSE, model |-> model_, vectorizer |-> vectorizer_]} :
              /\ arg' = [configPath |-> path]
              /\ config_' = loaded.config
              /\ vectorizer_' = applied.vectorizer
              /\ model_' = applied.model
              /\ succeeded' = (succeeded \/ applied.ok)
              /\ ret' = Returned("bool", loaded.ok)
    /\ op' = "loadConfig"
    /\ UNCHANGED <<dataVars, disk, bucketOrder, v, w, file, saved, fitted, ret2, ub>>

NextAnalyzer ==
    \/ AnalyzeCall
    \/ AnalyzeMultipleCall
    \/ LoadModelCall
    \/ TrainModelCall
    \/ SetConfigCall
    \/ LoadConfigCall

SpecAnalyzer == InitAnalyzer /\ [][NextAnalyzer]_vars

\* C21: analyze throws, and returns no result, whenever no loadModel or
\* trainModel call has returned true so far, the load that applying a
\* configuration makes included
C21_AnalyzeThrowsWithoutModel ==
    (op = "analyze" /\ ~succeeded) => ret.kind = "threw"

\* harmScore > 0 for a result, by the sign of the bias
HarmScoreAboveZero(result) ==
    LET d == result.harmScore.dot
        b == result.harmScore.bias
        n == result.harmScore.normSq
    IN  IF b = 0 THEN d > 0
        ELSE IF b > 0 THEN d >= 0 \/ d * d < b * b * n
        ELSE d > 0 /\ d * d > b * b * n

SentimentFollowsScore(result) ==
    /\ result.sentiment \in {"Harmful", "Safe"}
    /\ result.sentiment = "Harmful" <=> HarmScoreAboveZero(result)

\* C22: every result of analyze is "Harmful" exactly when its harmScore is
\* above 0 and "Safe" otherwise, and analyzeMultiple returns one such
\* result per text, in the order of the texts
C22_SentimentIsSignOfScore ==
    /\ (op = "analyze" /\ ret.kind = "result") =>
          /\ ret.val.text = arg.text
          /\ SentimentFollowsScore(ret.val)
    /\ (op = "analyzeMultiple" /\ ret.kind = "results") =>
          /\ Len(ret.val) = Len(arg.texts)
          /\ \A i \in 1..Len(arg.texts) :
                /\ ret.val[i].text = arg.texts[i]
                /\ Returned("result", ret.val[i]) \in Analyze(vectorizer_, model_, arg.texts[i])
                /\ SentimentFollowsScore(ret.val[i])

\* two different texts analysed in one call, each scored exactly 0 by a
\* weight and a bias that cancel
C22_Witness ==
    /\ op = "analyzeMultiple"
    /\ ret.kind = "results"
    /\ Len(ret.val) = 2
    /\ ret.val[1].text # ret.val[2].text
    /\ \A i \in 1..2 :
          /\ ret.val[i].harmScore.dot < 0
          /\ ~HarmScoreAboveZero(ret.val[i])
          /\ ~HarmScoreAboveZero([harmScore |-> [ret.val[i].harmScore EXCEPT !.dot = @ - 1]])
          /\ HarmScoreAboveZero([harmScore |-> [ret.val[i].harmScore EXCEPT !.dot = @ + 1]])
          /\ ret.val[i].sentiment = "Safe"

\* C28: a loadModel call that returns false leaves the classifier and the
\* vectorizer as they were, so analyze of any text gives what it gave
\* before the call
C28_FailedLoadModelChangesNothing ==
    [][(op' = "loadModel" /\ ret' = Returned("bool", FALSE)) =>
          /\ model_' = model_
          /\ vectorizer_' = vectorizer_
          /\ \A text \in AnalyzeTexts :
                Analyze(vectorizer_', model_', text) = Analyze(vectorizer_, model_, text)]_vars

\* C29: a setConfig or loadConfig call that follows a loadModel call that
\* returned true leaves the classifier and the fitted vectorizer in place,
\* so analyze of any text gives what it gave before the call
C29_ConfigCallsKeepLoadedModel ==
    [][(/\ op = "loadModel"
        /\ ret = Returned("bool", TRUE)
        /\ op' \in {"setConfig", "loadConfig"}) =>
          /\ model_' = model_
          /\ vectorizer_'.vocabulary = vectorizer_.vocabulary
          /\ vectorizer_'.documentFrequencies = vectorizer_.documentFrequencies
          /\ vectorizer_'.totalDocuments = vectorizer_.totalDocuments
          /\ \A text \in AnalyzeTexts :
                Analyze(vectorizer_', model_', text) = Analyze(vectorizer_, model_, text)]_vars

-----------------------------------------------------------------------------
(* Properties of the maxFeatures cut *)

\* the number of fitted documents that hold the token
FittedDocsWith(t) ==
    Cardinality({d \in DOMAIN fitted : t \in Range(Tokenize(v, fitted[d]))})

\* the tokens of the fitted documents that the document-frequency filter
\* lets through
PassingTokens ==
    {t \in UNION {Range(Tokenize(v, fitted[d])) : d \in DOMAIN fitted} :
        FittedDocsWith(t) <= MaxDfCount(v.maxDf, v.totalDocuments)}

-----------------------------------------------------------------------------
(* Properties of the stored document frequencies *)

\* ln((totalDocuments + 1) / (df + 1)) + 1 in thousandths, as transform
\* computes it
SmoothedIdf(totalDocuments, df) == (Ln(totalDocuments + 1) - Ln(df + 1)) + 1000

\* C26: after fit on a non-empty corpus every stored document frequency is
\* at least 1 and at most totalDocuments, so the smoothed IDF divides by at
\* least 1 and is above 0.
C26_DocumentFrequencyWithinCorpus ==
    (op = "fit" /\ fitted # <<>>) =>
        /\ v.totalDocuments = Len(fitted)
        /\ \A i \in DOMAIN v.documentFrequencies :
              /\ 1 <= v.documentFrequencies[i]
              /\ v.documentFrequencies[i] <= v.totalDocuments
              /\ v.documentFrequencies[i] + 1 >= 1
              /\ SmoothedIdf(v.totalDocuments, v.documentFrequencies[i]) > 0

\* a fit of several documents kept a term that is in every one of them and
\* more than once in one of them
C26_Witness ==
    /\ op = "fit"
    /\ v.totalDocuments >= 2
    /\ \E t \in DOMAIN v.vocabulary :
          /\ v.documentFrequencies[v.vocabulary[t] + 1] = v.totalDocuments
          /\ \E d \in DOMAIN fitted : Occurrences(Tokenize(v, fitted[d]), t) >= 2

-----------------------------------------------------------------------------
(* The const members between fit and load: transform, tokenize, save and
   the getters, called in any order on a vectorizer that is fitted, saved
   and loaded *)

\* tokenize(text) on v, for n-gram bounds that stay inside the word vector
TokenizeTextCall ==
    \E text \in DocPool :
        /\ ret' = Returned("tokens", Tokenize(v, text))
        /\ op' = "tokenize"
        /\ arg' = text
        /\ UNCHANGED <<dataVars, analyzerVars, bucketOrder, v, w, file, saved, fitted, ret2, ub>>

\* getVocabulary, getDocumentFrequencies, getNumFeatures
GettersCall ==
    /\ ret' = Returned("getters",
                 [vocabulary |-> v.vocabulary,
                  documentFrequencies |-> v.documentFrequencies,
                  numFeatures |-> Cardinality(DOMAIN v.vocabulary)])
    /\ op' = "getters"
    /\ arg' = <<>>
    /\ UNCHANGED <<dataVars, analyzerVars, bucketOrder, v, w, file, saved, fitted, ret2, ub>>

\* TfidfVectorizer(), before any fit or load
InitReadOnly ==
    /\ bucketOrder = "ascending"
    /\ Constructed(FreshVectorizer, <<>>)

NextReadOnly ==
    \/ PersistFit
    \/ LoadCall
    \/ SaveCall
    \/ TransformCall
    \/ TokenizeTextCall
    \/ GettersCall

SpecReadOnly == InitReadOnly /\ [][NextReadOnly]_vars

ReadOnlyOps == {"transform", "tokenize", "save", "getters"}

\* C27: transform, tokenize, save and the getters leave the vocabulary, the
\* document frequencies, totalDocuments and the hyperparameters as they
\* were, so between two fit or load calls transform of the same documents
\* returns the same output every time.
C27_ConstCallsLeaveVectorizer ==
    [][op' \in ReadOnlyOps =>
          /\ v' = v
          /\ \A texts \in TransformInputs : Transform(v', texts) = Transform(v, texts)
          /\ (op' = "transform" /\ op = "transform" /\ arg' = arg) => ret' = ret]_vars

\* transform has returned a matrix for a document with a term that the
\* vocabulary does not hold
C27_Witness ==
    /\ op = "transform"
    /\ ret.kind = "matrix"
    /\ \E d \in DOMAIN arg : \E t \in Range(Tokenize(v, arg[d])) : t \notin DOMAIN v.vocabulary

-----------------------------------------------------------------------------
(* Properties of the counters over mismatched lengths *)

\* findOptimalThreshold with the counters of its sweep kept in ret2
FindOptimalThresholdSweepCall ==
    /\ op = "construct"
    /\ \E metric \in MetricNames,
          order \in DescendingOrders(arg.scores, NumPairs(arg.yTrue, arg.scores)) :
          /\ ret' = Returned("double",
                        FindOptimalThreshold(arg.yTrue, arg.scores, metric, order))
          /\ ret2' = Returned("counters", ThresholdCounters(arg.yTrue, order))
          /\ arg' = [yTrue |-> arg.yTrue, scores |-> arg.scores, metric |-> metric]
    /\ op' = "findOptimalThreshold"
    /\ UNCHANGED <<dataVars, analyzerVars, bucketOrder, v, w, file, saved, fitted, ub>>

NextCounters == FindOptimalThresholdSweepCall \/ AreaUnderROCCall

SpecCounters == InitScores /\ [][NextCounters]_vars

\* the labels and the scores of the pairs the functions form
PairedLabels == SubSeq(arg.yTrue, 1, NumPairs(arg.yTrue, arg.scores))
PairedScores == SubSeq(arg.scores, 1, NumPairs(arg.yTrue, arg.scores))

\* C30: at every step of findOptimalThreshold's sweep, whatever the two
\* lengths, tp, fp, tn and fn are at least 0 and sum to the number of
\* pairs, tp + fn is the number of positive pairs and tn + fp the number of
\* negative pairs; and areaUnderROC returns what it returns for the paired
\* samples alone, dividing by their class counts.
C30_CountersCoverPairedSamples ==
    /\ op = "findOptimalThreshold" =>
          \A i \in DOMAIN ret2.val :
             LET c == ret2.val[i]
             IN  /\ c.tp >= 0 /\ c.fp >= 0 /\ c.tn >= 0 /\ c.fn >= 0
                 /\ c.tp + c.fp + c.tn + c.fn = NumPairs(arg.yTrue, arg.scores)
                 /\ c.tp + c.fn = PositiveCount(PairedLabels)
                 /\ c.tn + c.fp = NegativeCount(PairedLabels)
    /\ op = "areaUnderROC" =>
          \E order \in DescendingOrders(PairedScores, Len(PairedScores)) :
             RatEq(ret.val, AreaUnderROC(PairedLabels, PairedScores, order))

=============================================================================
